---- MODULE Spec2Model ----
(***************************************************************************)
(* Model of cat_scan (cat-scan/cat_scan/src/main.rs): the size             *)
(* canonicalizer, the per-record multi-view aggregator and the state they  *)
(* keep in GlobalStats.                                                     *)
(*                                                                         *)
(* JSON leaves are records [t, hi, lo, s]: t is the JSON type, (hi, lo) a  *)
(* non-negative integer hi * 2^32 + lo (lo < 2^32), s a string.  Bid       *)
(* prices are f64 in the code; the model uses integers (a price unit that  *)
(* is exactly representable, so that sums are exact).                      *)
(***************************************************************************)
EXTENDS Integers, Sequences, FiniteSets, Bags, TLC

VARIABLES
    global,     \* the GlobalStats being filled: six views
    ingested,   \* history: the bag of records passed to process_record_global
    cin,        \* canonicalizer probe: the (w, h) the probe started from
    cout,       \* canonicalizer probe: results of successive canonical_size calls
    cstd,       \* canonicalizer probe: result of is_standard_size(cin), or "unset"
    priced,     \* one FormatStats entry with its f64 price sum, and its updates
    problems,   \* the call of find_problem_formats: threshold and returned list
    reader,     \* the call of process_lines_global: its lines and its result
    dest        \* the traffic generator's LogDestination::S3 and its put_object calls

vars == <<global, ingested, cin, cout, cstd, priced, problems, reader, dest>>

(***************************************************************************)
(* Bounds of the model.                                                    *)
(***************************************************************************)
MaxRecords == 3     \* records ingested in one pass
Margin == 1         \* probe sizes lie within Margin of each window edge
MaxBatches == 4     \* runs of equal records ingested before the classifier
MaxPriced == 4      \* updates applied to the priced entry
MaxApply == 2       \* successive applications of canonical_size in a probe
MaxLines == 3       \* lines of the file process_lines_global reads
MaxWrites == 102    \* write_log calls of one run of the generator
MaxFailures == 2    \* uploads that fail in one run of the generator

\* `if buffer.len() >= 50` (fake_ssp).
FlushAt == 50

(***************************************************************************)
(* JSON leaves (serde_json::Value at the end of a path).                   *)
(***************************************************************************)
JAbsent == [t |-> "absent", hi |-> 0, lo |-> 0, s |-> ""]
JStr(x) == [t |-> "str", hi |-> 0, lo |-> 0, s |-> x]
JNum(h, l) == [t |-> "num", hi |-> h, lo |-> l, s |-> ""]

\* Value::as_u64: Some(n) for a non-negative integer, None otherwise.
as_u64(j) == IF j.t = "num" THEN [some |-> TRUE, hi |-> j.hi, lo |-> j.lo]
                            ELSE [some |-> FALSE, hi |-> 0, lo |-> 0]

\* as_str folded with unwrap_or(""): a missing string reads as Some("").
as_str_or_empty(j) == IF j.t = "str" THEN [some |-> TRUE, s |-> j.s]
                                     ELSE [some |-> TRUE, s |-> ""]

\* Value::as_str: Some(s) for a string, None otherwise.
as_str(j) == IF j.t = "str" THEN [some |-> TRUE, s |-> j.s]
                            ELSE [some |-> FALSE, s |-> ""]

\* `.as_u64().unwrap_or(0) as u32`: the cast keeps the low 32 bits.
dim_u32(j) == LET o == as_u64(j) IN IF o.some THEN o.lo ELSE 0

(***************************************************************************)
(* f64 arithmetic on the values the counters and prices take: zero and the *)
(* positive normal numbers.  m is the 53-bit significand, most significant *)
(* bit first (m[1] = 1), and the value is m * 2^e; zero has no bits.        *)
(* Operations round to nearest, ties to even, as IEEE 754 binary64 does.   *)
(***************************************************************************)
F64Bits == 53

F64_zero == [m |-> <<>>, e |-> 0]

Zeros(n) == [i \in 1..n |-> 0]

\* b without its leading zero bits.
StripLeadingZeros(b) ==
    IF \A i \in 1..Len(b) : b[i] = 0 THEN <<>>
    ELSE LET k == CHOOSE i \in 1..Len(b) : b[i] = 1 /\ \A j \in 1..(i - 1) : b[j] = 0
         IN SubSeq(b, k, Len(b))

\* b without its trailing zero bits.
StripTrailingZeros(b) ==
    IF \A i \in 1..Len(b) : b[i] = 0 THEN <<>>
    ELSE LET k == CHOOSE i \in 1..Len(b) : b[i] = 1 /\ \A j \in (i + 1)..Len(b) : b[j] = 0
         IN SubSeq(b, 1, k)

\* The bit string of b + 1; one bit longer when b is all ones.
BitsInc(b) ==
    IF \A i \in 1..Len(b) : b[i] = 1 THEN <<1>> \o Zeros(Len(b))
    ELSE LET k == CHOOSE i \in 1..Len(b) : b[i] = 0 /\ \A j \in (i + 1)..Len(b) : b[j] = 1
         IN SubSeq(b, 1, k - 1) \o <<1>> \o Zeros(Len(b) - k)

\* Long bit strings are worked through in pieces of this many bits.
Chunk == 16

\* a[lo..i] + b[lo..i] + carry: the carry out, then the sum bits.
RECURSIVE BitsAddRange(_, _, _, _, _)
BitsAddRange(a, b, lo, i, carry) ==
    IF i < lo THEN <<carry>>
    ELSE IF a[i] + b[i] + carry >= 2
    THEN BitsAddRange(a, b, lo, i - 1, 1) \o <<(a[i] + b[i] + carry) % 2>>
    ELSE BitsAddRange(a, b, lo, i - 1, 0) \o <<a[i] + b[i] + carry>>

\* a[1..i] + b[1..i] + carry, i + 1 bits.
RECURSIVE BitsAddFrom(_, _, _, _)
BitsAddFrom(a, b, i, carry) ==
    IF i <= Chunk THEN BitsAddRange(a, b, 1, i, carry)
    ELSE LET low == BitsAddRange(a, b, i - Chunk + 1, i, carry)
         IN IF low[1] = 1 THEN BitsAddFrom(a, b, i - Chunk, 1) \o Tail(low)
                          ELSE BitsAddFrom(a, b, i - Chunk, 0) \o Tail(low)

\* The sum of two bit strings of equal length, one bit longer.
BitsAdd(a, b) == BitsAddFrom(a, b, Len(a), 0)

\* A bit string of equal length compared as a number.
BitsLess(a, b) ==
    \E i \in 1..Len(a) : a[i] < b[i] /\ \A j \in 1..(i - 1) : a[j] = b[j]

RECURSIVE BitsOfNat(_)
BitsOfNat(n) == IF n = 0 THEN <<>> ELSE BitsOfNat(n \div 2) \o <<n % 2>>

RECURSIVE NatOfBits(_)
NatOfBits(b) ==
    IF b = <<>> THEN 0 ELSE 2 * NatOfBits(SubSeq(b, 1, Len(b) - 1)) + b[Len(b)]

\* The f64 nearest to bits * 2^e, plus a non-zero fraction of the last bit
\* when sticky; ties go to the even significand.
f64_round(bits, e, sticky) ==
    LET b == StripLeadingZeros(bits)
        n == Len(b)
    IN
    IF n = 0 THEN F64_zero
    ELSE IF n <= F64Bits
    THEN [m |-> b \o Zeros(F64Bits - n), e |-> e - (F64Bits - n)]
    ELSE
    LET head == SubSeq(b, 1, F64Bits)
        guard == b[F64Bits + 1]
        rest == sticky \/ \E i \in (F64Bits + 2)..n : b[i] = 1
        up == guard = 1 /\ (rest \/ head[F64Bits] = 1)
        r == IF up THEN BitsInc(head) ELSE head
    IN
    IF Len(r) > F64Bits
    THEN [m |-> SubSeq(r, 1, F64Bits), e |-> e + (n - F64Bits) + 1]
    ELSE [m |-> r, e |-> e + (n - F64Bits)]

\* `n as f64` for a counter n.
f64_from_u64(n) == f64_round(BitsOfNat(n), 0, FALSE)

\* a + b
f64_add(a, b) ==
    IF a.m = <<>> THEN b
    ELSE IF b.m = <<>> THEN a
    ELSE
    LET lo == IF a.e <= b.e THEN a ELSE b
        hi == IF a.e <= b.e THEN b ELSE a
        d == hi.e - lo.e
    IN
    IF d > F64Bits + 1 THEN hi
    ELSE f64_round(BitsAdd(hi.m \o Zeros(d), Zeros(d) \o lo.m), lo.e, FALSE)

\* The quotient bits and the remainder of a bit string divided by n.
\* Bits i..hi of the dividend, continuing from remainder r and quotient q;
\* r < n and Len(q) = i - 1 throughout.
RECURSIVE LongDivRange(_, _, _, _, _, _)
LongDivRange(bits, n, i, hi, r, q) ==
    IF i > hi \/ r >= n \/ Len(q) >= i THEN [q |-> q, r |-> r]
    ELSE LongDivRange(bits, n, i + 1, hi, (2 * r + bits[i]) % n,
                      Append(q, (2 * r + bits[i]) \div n))

RECURSIVE LongDiv(_, _, _, _, _)
LongDiv(bits, n, i, r, q) ==
    IF i > Len(bits) THEN [q |-> q, r |-> r]
    ELSE LET hi == IF i + Chunk - 1 < Len(bits) THEN i + Chunk - 1 ELSE Len(bits)
             d == LongDivRange(bits, n, i, hi, r, q)
         IN LongDiv(bits, n, hi + 1, d.r, d.q)

\* Zero bits appended to a dividend so that the quotient by a divisor below
\* 2^30 keeps more than F64Bits + 1 bits.
DivExtra == 32

\* a / b for a divisor b = n * 2^k with n below 2^30, which every counter
\* cast by `as f64` is.
f64_div(a, b) ==
    IF a.m = <<>> THEN F64_zero
    ELSE
    LET odd == StripTrailingZeros(b.m)
        n == NatOfBits(odd)
        k == b.e + (F64Bits - Len(odd))
        d == LongDiv(a.m \o Zeros(DivExtra), n, 1, 0, <<>>)
    IN f64_round(d.q, a.e - DivExtra - k, d.r # 0)

\* a < b
f64_lt(a, b) ==
    IF b.m = <<>> THEN FALSE
    ELSE IF a.m = <<>> THEN TRUE
    ELSE a.e < b.e \/ (a.e = b.e /\ BitsLess(a.m, b.m))

\* a <= b
f64_le(a, b) == a = b \/ f64_lt(a, b)

\* The four bits of a hexadecimal digit.
Nibble(d) == <<(d \div 8) % 2, (d \div 4) % 2, (d \div 2) % 2, d % 2>>

RECURSIVE HexBits(_)
HexBits(ds) == IF ds = <<>> THEN <<>> ELSE Nibble(Head(ds)) \o HexBits(Tail(ds))

\* The f64 with the 14-digit hexadecimal significand ds (first digit 1) and
\* binary exponent p, i.e. 0x1.<13 digits>p<p>.
f64_hex(ds, p) == [m |-> SubSeq(HexBits(ds), 4, 56), e |-> p - (F64Bits - 1)]

\* Decimal literals as serde_json parses them (as_f64): the nearest f64.
F64_0_01 == f64_hex(<<1, 4, 7, 10, 14, 1, 4, 7, 10, 14, 1, 4, 7, 11>>, -7)
F64_0_1 == f64_hex(<<1, 9, 9, 9, 9, 9, 9, 9, 9, 9, 9, 9, 9, 10>>, -4)
F64_0_2 == f64_hex(<<1, 9, 9, 9, 9, 9, 9, 9, 9, 9, 9, 9, 9, 10>>, -3)
F64_0_5 == f64_hex(<<1, 0, 0, 0, 0, 0, 0, 0, 0, 0, 0, 0, 0, 0>>, -1)
F64_1 == f64_from_u64(1)

(***************************************************************************)
(* Size canonicalizer.                                                     *)
(***************************************************************************)
\* The catalog with the 320x100 window 20 wide to the left instead of 10: it
\* then holds the canonical point 300x100 of a later entry.
standards_wide == <<
    << <<300, 250>>,  <<290, 240>>,   <<310, 260>>   >>,
    << <<320, 50>>,   <<310, 45>>,    <<330, 55>>    >>,
    << <<320, 100>>,  <<300, 90>>,    <<330, 110>>   >>,
    << <<728, 90>>,   <<718, 85>>,    <<738, 95>>    >>,
    << <<160, 600>>,  <<150, 590>>,   <<170, 610>>   >>,
    << <<300, 600>>,  <<290, 590>>,   <<310, 610>>   >>,
    << <<970, 250>>,  <<960, 240>>,   <<980, 260>>   >>,
    << <<970, 90>>,   <<960, 85>>,    <<980, 95>>    >>,
    << <<468, 60>>,   <<458, 55>>,    <<478, 65>>    >>,
    << <<120, 600>>,  <<110, 590>>,   <<130, 610>>   >>,
    << <<250, 250>>,  <<240, 240>>,   <<260, 260>>   >>,
    << <<336, 280>>,  <<326, 270>>,   <<346, 290>>   >>,
    << <<180, 150>>,  <<170, 140>>,   <<190, 160>>   >>,
    << <<300, 100>>,  <<290, 90>>,    <<310, 110>>   >>,
    << <<320, 480>>,  <<310, 470>>,   <<330, 490>>   >>,
    << <<480, 320>>,  <<470, 310>>,   <<490, 330>>   >>,
    << <<1024, 768>>, <<1014, 758>>,  <<1034, 778>>  >>,
    << <<768, 1024>>, <<758, 1014>>,  <<778, 1034>>  >> >>

\* (canonical, min, max), in scan order.
standards == <<
    << <<300, 250>>,  <<290, 240>>,   <<310, 260>>   >>,
    << <<320, 50>>,   <<310, 45>>,    <<330, 55>>    >>,
    << <<320, 100>>,  <<310, 90>>,    <<330, 110>>   >>,
    << <<728, 90>>,   <<718, 85>>,    <<738, 95>>    >>,
    << <<160, 600>>,  <<150, 590>>,   <<170, 610>>   >>,
    << <<300, 600>>,  <<290, 590>>,   <<310, 610>>   >>,
    << <<970, 250>>,  <<960, 240>>,   <<980, 260>>   >>,
    << <<970, 90>>,   <<960, 85>>,    <<980, 95>>    >>,
    << <<468, 60>>,   <<458, 55>>,    <<478, 65>>    >>,
    << <<120, 600>>,  <<110, 590>>,   <<130, 610>>   >>,
    << <<250, 250>>,  <<240, 240>>,   <<260, 260>>   >>,
    << <<336, 280>>,  <<326, 270>>,   <<346, 290>>   >>,
    << <<180, 150>>,  <<170, 140>>,   <<190, 160>>   >>,
    << <<300, 100>>,  <<290, 90>>,    <<310, 110>>   >>,
    << <<320, 480>>,  <<310, 470>>,   <<330, 490>>   >>,
    << <<480, 320>>,  <<470, 310>>,   <<490, 330>>   >>,
    << <<1024, 768>>, <<1014, 758>>,  <<1034, 778>>  >>,
    << <<768, 1024>>, <<758, 1014>>,  <<778, 1034>>  >> >>

\* The scan with the last matching entry winning instead of the first.
scan_standards_last(i, w, h) ==
    LET m == { j \in i..Len(standards) :
                 /\ w >= standards[j][2][1] /\ w <= standards[j][3][1]
                 /\ h >= standards[j][2][2] /\ h <= standards[j][3][2] }
    IN  IF m = {} THEN <<w, h>>
        ELSE standards[CHOOSE j \in m : \A k \in m : k <= j][1]

\* The `for` loop of canonical_size from entry i on: first match returns.
RECURSIVE scan_standards(_, _, _)
scan_standards(i, w, h) ==
    IF i > Len(standards) THEN <<w, h>>
    ELSE LET canonical == standards[i][1]
             min_w == standards[i][2][1]
             min_h == standards[i][2][2]
             max_w == standards[i][3][1]
             max_h == standards[i][3][2]
         IN  IF w >= min_w /\ w <= max_w /\ h >= min_h /\ h <= max_h
             THEN canonical
             ELSE scan_standards(i + 1, w, h)

\* The size passed through without canonicalizing.
canonical_size_raw(w, h) == <<w, h>>

canonical_size(w, h) == scan_standards(1, w, h)

\* The list with one size left out.
standard_points_short == {
    <<300, 250>>, <<320, 50>>, <<320, 100>>, <<728, 90>>, <<160, 600>>,
    <<300, 600>>, <<970, 250>>, <<970, 90>>, <<468, 60>>, <<120, 600>>,
    <<250, 250>>, <<336, 280>>, <<180, 150>>, <<320, 480>>,
    <<480, 320>>, <<1024, 768>>, <<768, 1024>> }

\* The list is_standard_size compares against.
standard_points == {
    <<300, 250>>, <<320, 50>>, <<320, 100>>, <<728, 90>>, <<160, 600>>,
    <<300, 600>>, <<970, 250>>, <<970, 90>>, <<468, 60>>, <<120, 600>>,
    <<250, 250>>, <<336, 280>>, <<180, 150>>, <<300, 100>>, <<320, 480>>,
    <<480, 320>>, <<1024, 768>>, <<768, 1024>> }

is_standard_size(w, h) == canonical_size(w, h) \in standard_points

(***************************************************************************)
(* GlobalStats and its entries.                                            *)
(***************************************************************************)
FormatStats_default == [requests |-> 0, bids |-> 0, sum_bid_price |-> 0]

TimeStats_default ==
    [requests |-> 0, bids |-> 0, sum_bid_price |-> 0, min_ts |-> 0, max_ts |-> 0]

EmptyMap == [k \in {} |-> FormatStats_default]

GlobalStats_new ==
    [by_raw_format |-> EmptyMap, by_canonical_format |-> EmptyMap,
     by_publisher |-> EmptyMap, by_segment |-> EmptyMap,
     by_ssp |-> EmptyMap, time_stats |-> EmptyMap]

\* A fresh entry every time, as map.insert(key, Default::default()) would give.
or_default_fresh(map, key, default) == default

\* BTreeMap::entry(key).or_default(): the entry the update starts from.
or_default(map, key, default) == IF key \in DOMAIN map THEN map[key] ELSE default

\* The map after the entry under key has been written.
with_entry(map, key, value) ==
    [k \in DOMAIN map \cup {key} |-> IF k = key THEN value ELSE map[k]]

(***************************************************************************)
(* process_record_global.                                                  *)
(***************************************************************************)
\* The test written with && instead of ||.
skip_record_both(w, h) == w = 0 /\ h = 0

\* `if w == 0 || h == 0 { return; }`
skip_record(w, h) == w = 0 \/ h = 0

\* has_bid: seatbid is an array and it is not empty.
has_bid_of(response) ==
    response.seatbid.t = "array" /\ Len(response.seatbid.a) > 0

\* bid_price: seatbid[0].bid[0].price as f64, else 0.0; 0.0 when !has_bid.
bid_price_of(response) ==
    IF has_bid_of(response)
    THEN LET sb == response.seatbid.a[1] IN
         IF sb.bid.t = "array" /\ Len(sb.bid.a) > 0
         THEN LET b == sb.bid.a[1] IN
              IF b.price.t = "num" THEN b.price.v ELSE 0
         ELSE 0
    ELSE 0

\* update_stats that counts into a fresh entry only: an entry that holds a
\* request already is left as it is.
update_stats_once(entry, has_bid, bid_price) ==
    IF entry.requests > 0 THEN entry
    ELSE [requests |-> 1,
          bids |-> IF has_bid THEN 1 ELSE 0,
          sum_bid_price |-> IF has_bid THEN bid_price ELSE 0]

\* update_stats with bids as a flag: set to 1 by a bid instead of counted.
update_stats_flag(entry, has_bid, bid_price) ==
    [requests |-> entry.requests + 1,
     bids |-> IF has_bid THEN 1 ELSE entry.bids,
     sum_bid_price |-> IF has_bid THEN entry.sum_bid_price + bid_price
                                  ELSE entry.sum_bid_price]

\* update_stats counting a request only when there is no bid.
update_stats_else(entry, has_bid, bid_price) ==
    [requests |-> IF has_bid THEN entry.requests ELSE entry.requests + 1,
     bids |-> IF has_bid THEN entry.bids + 1 ELSE entry.bids,
     sum_bid_price |-> IF has_bid THEN entry.sum_bid_price + bid_price
                                  ELSE entry.sum_bid_price]

\* update_stats without `entry.bids += 1`.
update_stats_no_count(entry, has_bid, bid_price) ==
    [requests |-> entry.requests + 1,
     bids |-> entry.bids,
     sum_bid_price |-> IF has_bid THEN entry.sum_bid_price + bid_price
                                  ELSE entry.sum_bid_price]

\* The update_stats closure.
update_stats(entry, has_bid, bid_price) ==
    [requests |-> entry.requests + 1,
     bids |-> IF has_bid THEN entry.bids + 1 ELSE entry.bids,
     sum_bid_price |-> IF has_bid THEN entry.sum_bid_price + bid_price
                                  ELSE entry.sum_bid_price]

\* The entry created for every record and counted only for one with a bid.
update_view_on_bid(map, key, has_bid, bid_price) ==
    LET entry == or_default(map, key, FormatStats_default)
    IN with_entry(map, key,
                  IF has_bid THEN update_stats(entry, has_bid, bid_price) ELSE entry)

\* update_stats(map.entry(key).or_default())
update_view(map, key, has_bid, bid_price) ==
    with_entry(map, key,
               update_stats(or_default(map, key, FormatStats_default),
                            has_bid, bid_price))

\* Step 6 deciding "bid" by `bid_price > 0.0` instead of has_bid.
update_time_entry_by_price(entry, ts_ms, has_bid, bid_price) ==
    [requests |-> entry.requests + 1,
     min_ts |-> IF entry.min_ts = 0 \/ ts_ms < entry.min_ts
                THEN ts_ms ELSE entry.min_ts,
     max_ts |-> IF ts_ms > entry.max_ts THEN ts_ms ELSE entry.max_ts,
     bids |-> IF bid_price > 0 THEN entry.bids + 1 ELSE entry.bids,
     sum_bid_price |-> IF bid_price > 0 THEN entry.sum_bid_price + bid_price
                                        ELSE entry.sum_bid_price]

\* Step 6 with max_ts overwritten by each timestamp instead of compared.
update_time_entry_last_ts(entry, ts_ms, has_bid, bid_price) ==
    [requests |-> entry.requests + 1,
     min_ts |-> IF entry.min_ts = 0 \/ ts_ms < entry.min_ts
                THEN ts_ms ELSE entry.min_ts,
     max_ts |-> ts_ms,
     bids |-> IF has_bid THEN entry.bids + 1 ELSE entry.bids,
     sum_bid_price |-> IF has_bid THEN entry.sum_bid_price + bid_price
                                  ELSE entry.sum_bid_price]

\* Step 6 lowering min_ts only by `ts_ms < entry.min_ts`, from its default 0.
update_time_entry_from_zero(entry, ts_ms, has_bid, bid_price) ==
    [requests |-> entry.requests + 1,
     min_ts |-> IF ts_ms < entry.min_ts THEN ts_ms ELSE entry.min_ts,
     max_ts |-> IF ts_ms > entry.max_ts THEN ts_ms ELSE entry.max_ts,
     bids |-> IF has_bid THEN entry.bids + 1 ELSE entry.bids,
     sum_bid_price |-> IF has_bid THEN entry.sum_bid_price + bid_price
                                  ELSE entry.sum_bid_price]

\* Step 6, the body of `if let Some(ts_ms) = record.ts_ms`, on one entry.
update_time_entry(entry, ts_ms, has_bid, bid_price) ==
    [requests |-> entry.requests + 1,
     min_ts |-> IF entry.min_ts = 0 \/ ts_ms < entry.min_ts
                THEN ts_ms ELSE entry.min_ts,
     max_ts |-> IF ts_ms > entry.max_ts THEN ts_ms ELSE entry.max_ts,
     bids |-> IF has_bid THEN entry.bids + 1 ELSE entry.bids,
     sum_bid_price |-> IF has_bid THEN entry.sum_bid_price + bid_price
                                  ELSE entry.sum_bid_price]

\* The bucket taken as the nearest minute instead of the minute begun.
update_time_stats_nearest(map, ts_ms, has_bid, bid_price) ==
    LET minute_bucket == (ts_ms + 30000) \div 60000 IN
    with_entry(map, minute_bucket,
               update_time_entry(or_default(map, minute_bucket, TimeStats_default),
                                 ts_ms, has_bid, bid_price))

\* Step 6: the entry of the record's minute, created if missing, updated.
update_time_stats(map, ts_ms, has_bid, bid_price) ==
    LET minute_bucket == ts_ms \div 60000 IN
    with_entry(map, minute_bucket,
               update_time_entry(or_default(map, minute_bucket, TimeStats_default),
                                 ts_ms, has_bid, bid_price))

\* Step 3: request.source.ssp as a string, "" when it is missing.
ssp_of(record) ==
    LET o == as_str(record.ssp) IN IF o.some THEN o.s ELSE ""

\* The by-source update without the `!ssp.is_empty()` test.
update_ssp_always(map, ssp, has_bid, bid_price) ==
    update_view(map, ssp, has_bid, bid_price)

\* `if !ssp.is_empty() { update_stats(by_ssp.entry(ssp)) }`
update_ssp(map, ssp, has_bid, bid_price) ==
    IF ssp # "" THEN update_view(map, ssp, has_bid, bid_price) ELSE map

\* Step 4 taken only for a record that names its source.
update_publisher_with_source(map, ssp, pub_id, has_bid, bid_price) ==
    IF pub_id.some /\ ssp # ""
    THEN update_view(map, [ssp |-> ssp, publisher_id |-> pub_id.s], has_bid, bid_price)
    ELSE map

\* Step 4: `if let Some(pub_id) = ...site.publisher.id.as_str()`.
update_publisher(map, ssp, pub_id, has_bid, bid_price) ==
    IF pub_id.some
    THEN update_view(map, [ssp |-> ssp, publisher_id |-> pub_id.s],
                     has_bid, bid_price)
    ELSE map

\* Step 5: `if let Some(seg_id) = ...user.data[0].segment[0].id.as_str()`.
update_segment(map, ssp, seg_id, has_bid, bid_price) ==
    IF seg_id.some
    THEN update_view(map, [ssp |-> ssp, segment |-> seg_id.s],
                     has_bid, bid_price)
    ELSE map

\* Step 6: `if let Some(ts_ms) = record.ts_ms`.
update_time(map, ts_ms, has_bid, bid_price) ==
    IF ts_ms.some
    THEN update_time_stats(map, ts_ms.v, has_bid, bid_price)
    ELSE map

process_record_global(record, g) ==
    LET w == dim_u32(record.w)
        h == dim_u32(record.h)
    IN
    IF skip_record(w, h) THEN g
    ELSE
    LET has_bid == has_bid_of(record.response)
        bid_price == bid_price_of(record.response)
        canonical == canonical_size(w, h)
        ssp == ssp_of(record)
    IN
    [by_raw_format |->
        update_view(g.by_raw_format, <<w, h>>, has_bid, bid_price),
     by_canonical_format |->
        update_view(g.by_canonical_format, canonical, has_bid, bid_price),
     by_ssp |->
        update_ssp(g.by_ssp, ssp, has_bid, bid_price),
     by_publisher |->
        update_publisher(g.by_publisher, ssp, as_str(record.publisher_id),
                         has_bid, bid_price),
     by_segment |->
        update_segment(g.by_segment, ssp, as_str(record.segment_id),
                       has_bid, bid_price),
     time_stats |->
        update_time(g.time_stats, record.ts_ms, has_bid, bid_price)]

(***************************************************************************)
(* bid_rate, avg_bid_price and find_problem_formats.                       *)
(***************************************************************************)
\* The ratio turned over: requests / bids.
bid_rate_inverse(stat) ==
    IF stat.bids = 0 THEN F64_zero
    ELSE f64_div(f64_from_u64(stat.requests), f64_from_u64(stat.bids))

\* The average taken over requests instead of bids.
avg_bid_price_per_request(stat) ==
    IF stat.bids = 0 THEN F64_zero
    ELSE f64_div(stat.sum_bid_price, f64_from_u64(stat.requests))

\* stat.sum_bid_price is an f64 here.
avg_bid_price(stat) ==
    IF stat.bids = 0 THEN F64_zero
    ELSE f64_div(stat.sum_bid_price, f64_from_u64(stat.bids))

\* The update_stats closure with sum_bid_price kept as the f64 it is, for
\* prices that are not integers.
update_stats_f64(entry, has_bid, bid_price) ==
    [requests |-> entry.requests + 1,
     bids |-> IF has_bid THEN entry.bids + 1 ELSE entry.bids,
     sum_bid_price |-> IF has_bid THEN f64_add(entry.sum_bid_price, bid_price)
                                  ELSE entry.sum_bid_price]

bid_rate(stat) ==
    IF stat.requests = 0 THEN F64_zero
    ELSE f64_div(f64_from_u64(stat.bids), f64_from_u64(stat.requests))

\* (w, h) keys in BTreeMap order: ascending w, then ascending h.
key_less(a, b) == a[1] < b[1] \/ (a[1] = b[1] /\ a[2] < b[2])

\* The keys of a view in the order `for (&(w, h), stats) in &map` visits them.
RECURSIVE keys_in_order(_)
keys_in_order(S) ==
    IF S = {} THEN <<>>
    ELSE LET k == CHOOSE x \in S : \A y \in S \ {x} : key_less(x, y)
         IN <<k>> \o keys_in_order(S \ {k})

\* The loop body with the threshold raised to 10 inside, as main does to its
\* argument (`config.min_requests.max(10)`).
problem_of_at_least_ten(w, h, stats, min_volume_threshold) ==
    LET rate == IF stats.requests = 0 THEN F64_zero
                ELSE f64_div(f64_from_u64(stats.bids), f64_from_u64(stats.requests))
        least == IF min_volume_threshold < 10 THEN 10 ELSE min_volume_threshold
        found(t) == << [w |-> w, h |-> h, requests |-> stats.requests,
                        bids |-> stats.bids, bid_rate |-> rate, problem_type |-> t] >>
    IN
    IF stats.bids = 0 /\ stats.requests >= least
    THEN found("zero_bids")
    ELSE IF ~is_standard_size(w, h) /\ stats.requests >= least
    THEN found("non_standard")
    ELSE IF /\ f64_lt(rate, F64_0_01)
            /\ stats.requests >= least
            /\ stats.bids > 0
    THEN found("low_bid_rate")
    ELSE <<>>

\* The loop body with the size test ahead of the zero-bid test.
problem_of_size_first(w, h, stats, min_volume_threshold) ==
    LET rate == IF stats.requests = 0 THEN F64_zero
                ELSE f64_div(f64_from_u64(stats.bids), f64_from_u64(stats.requests))
        found(t) == << [w |-> w, h |-> h, requests |-> stats.requests,
                        bids |-> stats.bids, bid_rate |-> rate, problem_type |-> t] >>
    IN
    IF ~is_standard_size(w, h) /\ stats.requests >= min_volume_threshold
    THEN found("non_standard")
    ELSE IF stats.bids = 0 /\ stats.requests >= min_volume_threshold
    THEN found("zero_bids")
    ELSE IF /\ f64_lt(rate, F64_0_01)
            /\ stats.requests >= min_volume_threshold
            /\ stats.bids > 0
    THEN found("low_bid_rate")
    ELSE <<>>

\* The loop body with the zero-bid test not looking at the volume.
problem_of_any_volume(w, h, stats, min_volume_threshold) ==
    LET rate == IF stats.requests = 0 THEN F64_zero
                ELSE f64_div(f64_from_u64(stats.bids), f64_from_u64(stats.requests))
        found(t) == << [w |-> w, h |-> h, requests |-> stats.requests,
                        bids |-> stats.bids, bid_rate |-> rate, problem_type |-> t] >>
    IN
    IF stats.bids = 0
    THEN found("zero_bids")
    ELSE IF ~is_standard_size(w, h) /\ stats.requests >= min_volume_threshold
    THEN found("non_standard")
    ELSE IF /\ f64_lt(rate, F64_0_01)
            /\ stats.requests >= min_volume_threshold
            /\ stats.bids > 0
    THEN found("low_bid_rate")
    ELSE <<>>

\* The body of the loop of find_problem_formats for one raw entry: what it
\* pushes, one ProblemFormat or nothing.
problem_of(w, h, stats, min_volume_threshold) ==
    LET rate == IF stats.requests = 0 THEN F64_zero
                ELSE f64_div(f64_from_u64(stats.bids), f64_from_u64(stats.requests))
        found(t) == << [w |-> w, h |-> h, requests |-> stats.requests,
                        bids |-> stats.bids, bid_rate |-> rate, problem_type |-> t] >>
    IN
    IF stats.bids = 0 /\ stats.requests >= min_volume_threshold
    THEN found("zero_bids")
    ELSE IF ~is_standard_size(w, h) /\ stats.requests >= min_volume_threshold
    THEN found("non_standard")
    ELSE IF /\ f64_lt(rate, F64_0_01)
            /\ stats.requests >= min_volume_threshold
            /\ stats.bids > 0
    THEN found("low_bid_rate")
    ELSE <<>>

\* The loop: problems pushed in the order of the keys.
RECURSIVE push_problems(_, _, _)
push_problems(map, keys, min_volume_threshold) ==
    IF keys = <<>> THEN <<>>
    ELSE problem_of(keys[1][1], keys[1][2], map[keys[1]], min_volume_threshold)
            \o push_problems(map, Tail(keys), min_volume_threshold)

\* x placed ahead of the problems with as many requests.
insert_problem_ahead(sorted, x) ==
    LET n == Cardinality({ i \in 1..Len(sorted) : sorted[i].requests > x.requests })
    IN SubSeq(sorted, 1, n) \o <<x>> \o SubSeq(sorted, n + 1, Len(sorted))

\* x placed after the problems with at least as many requests.
insert_problem(sorted, x) ==
    LET n == Cardinality({ i \in 1..Len(sorted) : sorted[i].requests >= x.requests })
    IN SubSeq(sorted, 1, n) \o <<x>> \o SubSeq(sorted, n + 1, Len(sorted))

\* problems.sort_by(|a, b| b.requests.cmp(&a.requests)): a stable sort, equal
\* elements keep their order.
RECURSIVE sort_by_requests(_)
sort_by_requests(ps) ==
    IF ps = <<>> THEN <<>>
    ELSE insert_problem(sort_by_requests(SubSeq(ps, 1, Len(ps) - 1)), ps[Len(ps)])

find_problem_formats(g, min_volume_threshold) ==
    sort_by_requests(push_problems(g.by_raw_format,
                                   keys_in_order(DOMAIN g.by_raw_format),
                                   min_volume_threshold))

\* process_record_global applied to n equal records in a row, the first half
\* of the run and then the rest; a record that leaves g as it was (a skipped
\* one) leaves it so every time.
RECURSIVE process_repeated(_, _, _)
process_repeated(record, n, g) ==
    IF n = 0 THEN g
    ELSE IF n = 1 THEN process_record_global(record, g)
    ELSE LET half == process_repeated(record, n \div 2, g)
         IN IF half = g THEN g ELSE process_repeated(record, n - n \div 2, half)

(***************************************************************************)
(* Reading a file of log lines.  A line is its text without the newline:   *)
(* `pad` says whether white space surrounds it, `text` what is left when   *)
(* that is trimmed away ("empty", "record", "not_json", "no_request"), or  *)
(* "not_utf8" for bytes that are no string; `record` is the LogRecord a    *)
(* "record" line deserializes to.                                          *)
(***************************************************************************)
\* `reader.lines()`: an item is an Err for bytes that are not UTF-8.
read_line_ok(line) == line.text # "not_utf8"

\* `line.trim()`.
trim(line) == [line EXCEPT !.pad = FALSE]

\* `trimmed.is_empty()`.
is_empty(trimmed) == trimmed.text = "empty" /\ ~trimmed.pad

\* `serde_json::from_str::<LogRecord>(trimmed)`: Ok for a JSON object with
\* a `request` member, the only member without a default.
from_str_ok(trimmed) == trimmed.text = "record"

\* The loop going on after a line that failed, the first failure returned
\* at the end.
RECURSIVE process_lines_global_skipping(_, _, _, _)
process_lines_global_skipping(lines, line_no, g, acc) ==
    IF line_no >= Len(lines) THEN [global |-> g, result |-> acc.result,
                                   records |-> acc.records]
    ELSE LET line == lines[line_no + 1]
             failed == [acc EXCEPT !.result =
                           IF acc.result.ok THEN [ok |-> FALSE, line |-> line_no + 1]
                           ELSE acc.result]
         IN IF ~read_line_ok(line)
            THEN process_lines_global_skipping(lines, line_no + 1, g, failed)
            ELSE IF is_empty(trim(line))
            THEN process_lines_global_skipping(lines, line_no + 1, g, acc)
            ELSE IF ~from_str_ok(trim(line))
            THEN process_lines_global_skipping(lines, line_no + 1, g, failed)
            ELSE process_lines_global_skipping(
                     lines, line_no + 1, process_record_global(line.record, g),
                     [acc EXCEPT !.records = Append(@, line.record)])

\* process_lines_global from the line at index line_no (0-based, as
\* `enumerate` counts) on: a line that cannot be read or parsed returns the
\* error with line_no + 1, a blank line is passed over, any other line is
\* ingested.  acc.records lists the records ingested so far.
RECURSIVE process_lines_global(_, _, _, _)
process_lines_global(lines, line_no, g, acc) ==
    IF line_no >= Len(lines) THEN [global |-> g, result |-> acc.result,
                                   records |-> acc.records]
    ELSE LET line == lines[line_no + 1]
             failed == [global |-> g,
                        result |-> [ok |-> FALSE, line |-> line_no + 1],
                        records |-> acc.records]
         IN IF ~read_line_ok(line) THEN failed
            ELSE IF is_empty(trim(line))
            THEN process_lines_global(lines, line_no + 1, g, acc)
            ELSE IF ~from_str_ok(trim(line)) THEN failed
            ELSE process_lines_global(
                     lines, line_no + 1, process_record_global(line.record, g),
                     [acc EXCEPT !.records = Append(@, line.record)])


(***************************************************************************)
(* The traffic generator's log destination (fake_ssp), S3 variant.  A log  *)
(* line is the number of the write_log call that wrote it; an uploaded     *)
(* body is a sequence of tokens, <<"line", n>> for the text of line n and  *)
(* <<"nl", 0>> for a newline character.  `puts` lists the put_object       *)
(* calls made, each with its body and whether the upload succeeded.        *)
(***************************************************************************)
\* `buffer.join("\n") + "\n"`: every line followed by a newline.
join_lines(buffer) ==
    [i \in 1..(2 * Len(buffer)) |->
        IF i % 2 = 1 THEN <<"line", buffer[(i + 1) \div 2]>> ELSE <<"nl", 0>>]

\* flush with `buffer.clear()` ahead of the upload.
flush_clear_first(d, upload_ok) ==
    IF d.buffer = <<>> THEN [d EXCEPT !.last = "flush_ok"]
    ELSE [d EXCEPT !.puts = Append(@, [body |-> join_lines(d.buffer),
                                       ok |-> upload_ok]),
                   !.buffer = <<>>,
                   !.last = IF upload_ok THEN "flush_ok" ELSE "flush_err"]

\* LogDestination::flush, S3 arm: nothing to do on an empty buffer; else
\* one put_object of the joined buffer, and `buffer.clear()` only when the
\* upload did not fail (`?` returns before it).
flush(d, upload_ok) ==
    IF d.buffer = <<>> THEN [d EXCEPT !.last = "flush_ok"]
    ELSE [d EXCEPT !.puts = Append(@, [body |-> join_lines(d.buffer),
                                       ok |-> upload_ok]),
                   !.buffer = IF upload_ok THEN <<>> ELSE @,
                   !.last = IF upload_ok THEN "flush_ok" ELSE "flush_err"]

\* LogDestination::write_log, S3 arm: push, then flush when the buffer has
\* reached FlushAt lines; the flush's error is the call's error.
write_log(d, log_line, upload_ok) ==
    LET pushed == [d EXCEPT !.buffer = Append(@, log_line),
                            !.written = @ + 1]
    IN IF Len(pushed.buffer) >= FlushAt
       THEN LET flushed == flush(pushed, upload_ok)
            IN [flushed EXCEPT !.last = IF flushed.last = "flush_ok"
                                        THEN "write_ok" ELSE "write_err"]
       ELSE [pushed EXCEPT !.last = "write_ok"]

(***************************************************************************)
(* Inputs: log records.                                                    *)
(***************************************************************************)
NoSeatbid == [seatbid |-> [t |-> "absent", a |-> <<>>]]
EmptySeatbid == [seatbid |-> [t |-> "array", a |-> <<>>]]
BidAt(p) ==
    [seatbid |-> [t |-> "array",
                  a |-> << [bid |-> [t |-> "array",
                                     a |-> << [price |-> [t |-> "num", v |-> p]] >>]] >>]]

NoTs == [some |-> FALSE, v |-> 0]
Ts(n) == [some |-> TRUE, v |-> n]

\* ssp, publisher id, segment id, timestamp
MetaNone == [ssp |-> JAbsent, publisher_id |-> JAbsent, segment_id |-> JAbsent,
             ts_ms |-> NoTs]
MetaFull == [ssp |-> JStr("s1"), publisher_id |-> JStr("p1"),
             segment_id |-> JStr("g1"), ts_ms |-> Ts(5)]

RecordsOf(sizes, responses, metas) ==
    { [w |-> sz[1], h |-> sz[2], response |-> r,
       ssp |-> m.ssp, publisher_id |-> m.publisher_id,
       segment_id |-> m.segment_id, ts_ms |-> m.ts_ms] :
      sz \in sizes, r \in responses, m \in metas }

\* Spec: two sizes of the 300x250 window, two of the 300x100 window (one of
\* them also in the 320x100 window), a non-standard size, a width of
\* 2^32 + 300, a zero width; no bid, bids at three prices.
Sizes == { <<JNum(0, 298), JNum(0, 250)>>, <<JNum(0, 300), JNum(0, 250)>>,
           <<JNum(0, 310), JNum(0, 100)>>, <<JNum(0, 300), JNum(0, 100)>>,
           <<JNum(0, 123), JNum(0, 456)>>, <<JNum(1, 300), JNum(0, 250)>>,
           <<JNum(0, 0), JNum(0, 250)>> }
Responses == { EmptySeatbid, BidAt(1), BidAt(2), BidAt(-1) }
Records == RecordsOf(Sizes, Responses, {MetaNone, MetaFull})

\* SpecSkip: every way a dimension can be zero, absent or non-numeric, and
\* one valid size.
SkipSizes == { <<JNum(0, 0), JNum(0, 250)>>, <<JNum(0, 300), JNum(0, 0)>>,
               <<JAbsent, JNum(0, 250)>>, <<JNum(0, 300), JAbsent>>,
               <<JStr("300"), JNum(0, 250)>>, <<JNum(0, 300), JStr("250")>>,
               <<JNum(0, 300), JNum(0, 250)>> }
SkipRecords == RecordsOf(SkipSizes, {EmptySeatbid, BidAt(1)}, {MetaNone, MetaFull})

\* SpecMeta: one valid size; source absent, empty or named; publisher,
\* segment and timestamp each absent or present.
Metas == { [ssp |-> a, publisher_id |-> b, segment_id |-> c, ts_ms |-> d] :
           a \in {JAbsent, JStr(""), JStr("s1")}, b \in {JAbsent, JStr("p1")},
           c \in {JAbsent, JStr("g1")}, d \in {NoTs, Ts(5)} }
MetaRecords == RecordsOf({<<JNum(0, 300), JNum(0, 250)>>},
                         {EmptySeatbid, BidAt(1)}, Metas)

\* SpecTime: one valid size; timestamps absent, zero, inside the first
\* minute, at its last millisecond and in the second minute.
Timestamps == {NoTs, Ts(0), Ts(5), Ts(7), Ts(59999), Ts(60000), Ts(60005)}
TimeRecords ==
    RecordsOf({<<JNum(0, 300), JNum(0, 250)>>}, {EmptySeatbid, BidAt(1)},
              { [MetaNone EXCEPT !.ts_ms = t] : t \in Timestamps })

\* SpecResp: one valid size; every shape of response.seatbid the bid test
\* tells apart, with and without the optional dimensions.
NonArraySeatbid == [seatbid |-> [t |-> "str", a |-> <<>>]]
SeatWithoutBid == [seatbid |-> [t |-> "array", a |-> << [bid |-> [t |-> "absent", a |-> <<>>]] >>]]
SeatWithEmptyBid == [seatbid |-> [t |-> "array", a |-> << [bid |-> [t |-> "array", a |-> <<>>]] >>]]
SecondSeatBidAt(p) ==
    [seatbid |-> [t |-> "array", a |-> SeatWithEmptyBid.seatbid.a \o BidAt(p).seatbid.a]]
ResponseShapes == {NoSeatbid, NonArraySeatbid, EmptySeatbid, SeatWithoutBid,
                   SeatWithEmptyBid, BidAt(1), BidAt(2), SecondSeatBidAt(2)}
RespRecords == RecordsOf({<<JNum(0, 300), JNum(0, 250)>>}, ResponseShapes,
                         {MetaNone, MetaFull})

(***************************************************************************)
(* The aggregation pass.                                                   *)
(***************************************************************************)
ProbeIdle == cin = <<0, 0>> /\ cout = <<>> /\ cstd = "unset"

\* No update applied to the priced entry yet.
PricedIdle ==
    priced = [stat |-> [requests |-> 0, bids |-> 0, sum_bid_price |-> F64_zero],
              updates |-> <<>>]

\* find_problem_formats not called yet.
NotRun == problems = [ran |-> FALSE, threshold |-> 0, list |-> <<>>]

\* process_lines_global not called yet.
NotRead ==
    reader = [ran |-> FALSE, lines |-> <<>>, result |-> [ok |-> TRUE, line |-> 0]]

\* LogDestination::S3 as new_from_env builds it: `buffer: Vec::new()`.
DestNew == dest = [buffer |-> <<>>, puts |-> <<>>, written |-> 0, last |-> "none"]

Init == /\ global = GlobalStats_new
        /\ ingested = EmptyBag
        /\ ProbeIdle
        /\ PricedIdle
        /\ NotRun
        /\ NotRead
        /\ DestNew

Ingest(record) ==
    /\ BagCardinality(ingested) < MaxRecords
    /\ global' = process_record_global(record, global)
    /\ ingested' = ingested (+) SetToBag({record})
    /\ UNCHANGED <<cin, cout, cstd, priced, problems, reader, dest>>

Next == \E record \in Records : Ingest(record)

Spec == Init /\ [][Next]_vars

NextSkip == \E record \in SkipRecords : Ingest(record)

SpecSkip == Init /\ [][NextSkip]_vars

NextMeta == \E record \in MetaRecords : Ingest(record)

SpecMeta == Init /\ [][NextMeta]_vars

NextTime == \E record \in TimeRecords : Ingest(record)

SpecTime == Init /\ [][NextTime]_vars

NextResp == \E record \in RespRecords : Ingest(record)

SpecResp == Init /\ [][NextResp]_vars

\* SpecPrice: one entry updated with records that bid a decimal price or
\* do not bid; the updates are kept in order, as f64 sums depend on it.
Prices == {F64_0_1, F64_0_2, F64_0_5, F64_1}
PricedUpdates == {[has_bid |-> FALSE, bid_price |-> F64_zero]} \cup
                 { [has_bid |-> TRUE, bid_price |-> p] : p \in Prices }

UpdateStats(u) ==
    /\ Len(priced.updates) < MaxPriced
    /\ priced' = [stat |-> update_stats_f64(priced.stat, u.has_bid, u.bid_price),
                  updates |-> Append(priced.updates, u)]
    /\ UNCHANGED <<global, ingested, cin, cout, cstd, problems, reader, dest>>

NextPrice == \E u \in PricedUpdates : UpdateStats(u)

SpecPrice == Init /\ [][NextPrice]_vars

\* SpecShard: the pass at both levels of detail, whole records with integer
\* prices through every view, or one entry with decimal prices in f64.
ShardMetas == {MetaNone, MetaFull,
               [MetaFull EXCEPT !.ssp = JAbsent, !.ts_ms = Ts(60000)]}
ShardRecords ==
    RecordsOf({<<JNum(0, 300), JNum(0, 250)>>, <<JNum(0, 298), JNum(0, 250)>>},
              {EmptySeatbid, BidAt(1), BidAt(2)}, ShardMetas)

IngestWhole(record) == PricedIdle /\ Ingest(record)

UpdateEntry(u) == ingested = EmptyBag /\ UpdateStats(u)

NextShard ==
    \/ \E record \in ShardRecords : IngestWhole(record)
    \/ \E u \in PricedUpdates : UpdateEntry(u)

SpecShard == Init /\ [][NextShard]_vars

\* SpecClassify: runs of equal records over a standard size and two other
\* sizes, then find_problem_formats once, as main calls it after the pass.
BatchSizes == {1, 10, 99, 100}
Thresholds == {10, 100}
ClassifyRecords ==
    RecordsOf({<<JNum(0, 300), JNum(0, 250)>>, <<JNum(0, 123), JNum(0, 456)>>,
               <<JNum(0, 999), JNum(0, 888)>>},
              {EmptySeatbid, BidAt(1)}, {MetaNone})

IngestBatch(record, n) ==
    /\ ~problems.ran
    /\ record \notin BagToSet(ingested)
    /\ Cardinality(BagToSet(ingested)) < MaxBatches
    /\ global' = process_repeated(record, n, global)
    /\ ingested' = ingested (+) (record :> n)
    /\ UNCHANGED <<cin, cout, cstd, priced, problems, reader, dest>>

FindProblemFormats(min_volume_threshold) ==
    /\ ~problems.ran
    /\ problems' = [ran |-> TRUE, threshold |-> min_volume_threshold,
                    list |-> find_problem_formats(global, min_volume_threshold)]
    /\ UNCHANGED <<global, ingested, cin, cout, cstd, priced, reader, dest>>

NextClassify ==
    \/ \E record \in ClassifyRecords : \E n \in BatchSizes : IngestBatch(record, n)
    \/ \E t \in Thresholds : FindProblemFormats(t)

SpecClassify == Init /\ [][NextClassify]_vars

\* SpecNoThreshold: the same runs of records, then find_problem_formats
\* called with min_volume_threshold = 0.
NextNoThreshold ==
    \/ \E record \in ClassifyRecords : \E n \in BatchSizes : IngestBatch(record, n)
    \/ FindProblemFormats(0)

SpecNoThreshold == Init /\ [][NextNoThreshold]_vars

(***************************************************************************)
(* Probing the canonicalizer: canonical_size and is_standard_size applied  *)
(* to sizes at and around every window edge and canonical point.           *)
(***************************************************************************)
Around(lo, c, hi) ==
    ((lo - Margin)..(lo + Margin)) \cup {c} \cup ((hi - Margin)..(hi + Margin))

ProbeW == {123, 999} \cup
    UNION { Around(standards[i][2][1], standards[i][1][1], standards[i][3][1]) :
            i \in 1..Len(standards) }

ProbeH == {456, 888} \cup
    UNION { Around(standards[i][2][2], standards[i][1][2], standards[i][3][2]) :
            i \in 1..Len(standards) }

InitCanon == /\ global = GlobalStats_new
             /\ ingested = EmptyBag
             /\ cin \in ProbeW \X ProbeH
             /\ cout = <<>>
             /\ cstd = "unset"
             /\ PricedIdle
             /\ NotRun
             /\ NotRead
             /\ DestNew

\* canonical_size applied to the probe's size, then to its own result.
CanonicalSize ==
    /\ Len(cout) < MaxApply
    /\ LET arg == IF cout = <<>> THEN cin ELSE cout[Len(cout)]
       IN  cout' = Append(cout, canonical_size(arg[1], arg[2]))
    /\ UNCHANGED <<global, ingested, cin, cstd, priced, problems, reader, dest>>

IsStandardSize ==
    /\ cstd = "unset"
    /\ cstd' = IF is_standard_size(cin[1], cin[2]) THEN "yes" ELSE "no"
    /\ UNCHANGED <<global, ingested, cin, cout, priced, problems, reader, dest>>

NextCanon == CanonicalSize \/ IsStandardSize

SpecCanon == InitCanon /\ [][NextCanon]_vars

(***************************************************************************)
(* SpecLines: records of earlier files ingested, then one file read by     *)
(* process_lines_global.                                                   *)
(***************************************************************************)
LineRecords ==
    RecordsOf({<<JNum(0, 300), JNum(0, 250)>>}, {EmptySeatbid, BidAt(1)}, {MetaFull})

\* A line of no record carries the default record, which is never read.
NoRecord == CHOOSE r \in LineRecords : TRUE

Lines ==
    { [text |-> "empty", pad |-> FALSE, record |-> NoRecord],
      [text |-> "empty", pad |-> TRUE, record |-> NoRecord],
      [text |-> "not_json", pad |-> FALSE, record |-> NoRecord],
      [text |-> "no_request", pad |-> TRUE, record |-> NoRecord],
      [text |-> "not_utf8", pad |-> FALSE, record |-> NoRecord] }
    \cup { [text |-> "record", pad |-> r.response = EmptySeatbid, record |-> r] :
           r \in LineRecords }

Files == UNION { [1..n -> Lines] : n \in 0..MaxLines }

RECURSIVE BagOfSeq(_)
BagOfSeq(seq) ==
    IF seq = <<>> THEN EmptyBag
    ELSE SetToBag({Head(seq)}) (+) BagOfSeq(Tail(seq))

IngestEarlier(record) == ~reader.ran /\ Ingest(record)

ProcessLinesGlobal(lines) ==
    /\ ~reader.ran
    /\ LET out == process_lines_global(
                      lines, 0, global, [result |-> [ok |-> TRUE, line |-> 0],
                                         records |-> <<>>])
       IN /\ global' = out.global
          /\ ingested' = ingested (+) BagOfSeq(out.records)
          /\ reader' = [ran |-> TRUE, lines |-> lines, result |-> out.result]
    /\ UNCHANGED <<cin, cout, cstd, priced, problems, dest>>

NextLines ==
    \/ \E record \in LineRecords : IngestEarlier(record)
    \/ \E lines \in Files : ProcessLinesGlobal(lines)

SpecLines == Init /\ [][NextLines]_vars

(***************************************************************************)
(* SpecDest: write_log calls, each upload succeeding or failing, and the   *)
(* final flush of main, after which the generator exits.                   *)
(***************************************************************************)
Failures == Cardinality({ i \in 1..Len(dest.puts) : ~dest.puts[i].ok })

\* The outcomes the next upload may have.
Uploads == IF Failures < MaxFailures THEN BOOLEAN ELSE {TRUE}

Exited == dest.last \in {"flush_ok", "flush_err"}

WriteLog(upload_ok) ==
    /\ ~Exited
    /\ dest.written < MaxWrites
    /\ dest' = write_log(dest, dest.written + 1, upload_ok)
    /\ UNCHANGED <<global, ingested, cin, cout, cstd, priced, problems, reader>>

Flush(upload_ok) ==
    /\ ~Exited
    /\ dest' = flush(dest, upload_ok)
    /\ UNCHANGED <<global, ingested, cin, cout, cstd, priced, problems, reader>>

NextDest ==
    \/ \E upload_ok \in Uploads : WriteLog(upload_ok)
    \/ \E upload_ok \in Uploads : Flush(upload_ok)

SpecDest == Init /\ [][NextDest]_vars

\* (w, h) lies in the tolerance window of catalog entry i.
InWindow(i, w, h) ==
    /\ standards[i][2][1] <= w /\ w <= standards[i][3][1]
    /\ standards[i][2][2] <= h /\ h <= standards[i][3][2]

CanonicalPoints == { standards[i][1] : i \in 1..Len(standards) }

\* C8: canonical_size returns the canonical point of the first catalog entry,
\* in catalog order, whose window contains (w, h), and (w, h) itself when no
\* window contains it; width 310 with height 90..110 resolves to 320x100.
C8_FirstMatchWins ==
    Len(cout) >= 1 =>
        LET w == cin[1]
            h == cin[2]
            r == cout[1]
            hits == { i \in 1..Len(standards) : InWindow(i, w, h) }
        IN  /\ hits # {} =>
                \E i \in hits : (\A j \in hits : i <= j) /\ r = standards[i][1]
            /\ hits = {} => r = <<w, h>>
            /\ (w = 310 /\ h \in 90..110) => r = <<320, 100>>

\* C8 witness: a size inside both the 320x100 and the 300x100 window has
\* been canonicalized.
C8_Witness ==
    /\ cin = <<310, 100>>
    /\ InWindow(3, 310, 100) /\ InWindow(14, 310, 100)
    /\ Len(cout) >= 1 /\ cout[1] = <<320, 100>>

\* C9: canonical_size is idempotent, and each of the 18 canonical points
\* maps to itself.
C9_Idempotent ==
    /\ Len(cout) >= 2 => cout[2] = cout[1]
    /\ (Len(cout) >= 1 /\ cin \in CanonicalPoints) => cout[1] = cin

\* C9 witness: a non-canonical size inside a window was canonicalized twice.
C9_Witness ==
    /\ Len(cout) >= 2
    /\ cin = <<309, 91>>
    /\ cout[1] = <<300, 100>>

\* C10: is_standard_size(w, h) holds iff canonical_size(w, h) is one of the
\* 18 canonical points, iff (w, h) lies in at least one window; a size that
\* falls through to itself is never standard.
C10_StandardIffInWindow ==
    (cstd # "unset" /\ Len(cout) >= 1) =>
        LET w == cin[1]
            h == cin[2]
            inSome == \E i \in 1..Len(standards) : InWindow(i, w, h)
        IN  /\ (cstd = "yes") <=> (cout[1] \in CanonicalPoints)
            /\ (cstd = "yes") <=> inSome
            /\ (~inSome /\ cout[1] = <<w, h>>) => cstd = "no"
            /\ Cardinality(CanonicalPoints) = 18

\* C10 witness: a size just outside a window was probed and is not standard.
C10_Witness ==
    /\ cin = <<311, 250>>
    /\ cstd = "no"
    /\ Len(cout) >= 1 /\ cout[1] = <<311, 250>>

(***************************************************************************)
(* What the claims speak of, stated on the records themselves.             *)
(***************************************************************************)
Views == { "by_raw_format", "by_canonical_format", "by_ssp", "by_publisher",
           "by_segment", "time_stats" }

IngestedSet == BagToSet(ingested)

\* Sum of f over the records S of the bag, with multiplicity.
RECURSIVE SumOver(_, _)
SumOver(S, f) ==
    IF S = {} THEN 0
    ELSE LET x == CHOOSE y \in S : TRUE
         IN  f[x] * CopiesIn(x, ingested) + SumOver(S \ {x}, f)

\* The record reports width wd and height ht (positive integers).
ReportsSize(rec, wd, ht) ==
    /\ rec.w.t = "num" /\ rec.w.hi = 0 /\ rec.w.lo = wd
    /\ rec.h.t = "num" /\ rec.h.hi = 0 /\ rec.h.lo = ht

\* A dimension that is zero, absent or non-numeric.
BadDim(j) == j.t # "num" \/ (j.hi = 0 /\ j.lo = 0)

\* The response holds at least one seat-bid entry with a bid in it.
HadBid(rec) ==
    /\ rec.response.seatbid.t = "array"
    /\ \E i \in 1..Len(rec.response.seatbid.a) :
          /\ rec.response.seatbid.a[i].bid.t = "array"
          /\ Len(rec.response.seatbid.a[i].bid.a) > 0

\* The price of the first bid of the first seat-bid entry, 0 without one.
FirstBidPrice(rec) ==
    IF /\ rec.response.seatbid.t = "array"
       /\ Len(rec.response.seatbid.a) > 0
       /\ rec.response.seatbid.a[1].bid.t = "array"
       /\ Len(rec.response.seatbid.a[1].bid.a) > 0
       /\ rec.response.seatbid.a[1].bid.a[1].price.t = "num"
    THEN rec.response.seatbid.a[1].bid.a[1].price.v
    ELSE 0

\* The entry of view v under key k before and after a step; a missing entry
\* counts as all zeros.
ZeroEntry == [requests |-> 0, bids |-> 0, sum_bid_price |-> 0]
Before(v, k) == IF k \in DOMAIN global[v] THEN global[v][k] ELSE ZeroEntry
After(v, k) == IF k \in DOMAIN global'[v] THEN global'[v][k] ELSE ZeroEntry

\* The record a step ingests: the one the history gains a copy of.
StepRecord ==
    CHOOSE r \in BagToSet(ingested') : CopiesIn(r, ingested') > CopiesIn(r, ingested)

\* The canonical point of the first catalog window holding (w, h), else (w, h).
FirstWindowPoint(w, h) ==
    LET hits == { i \in 1..Len(standards) :
                    /\ standards[i][2][1] <= w /\ w <= standards[i][3][1]
                    /\ standards[i][2][2] <= h /\ h <= standards[i][3][2] }
    IN  IF hits = {} THEN <<w, h>>
        ELSE standards[CHOOSE i \in hits : \A j \in hits : i <= j][1]

(***************************************************************************)
(* Claims about the aggregator.                                            *)
(***************************************************************************)
\* C1: for every raw size (w, h), the by-raw-size entry counts the ingested
\* records reporting width w and height h (both non-zero): requests is their
\* number, bids the number of them with a bid, sumBidPrice the sum of their
\* first-bid prices; a raw size reported by no record has no entry.
C1_RawCountsMatchRecords ==
    LET raw == global.by_raw_format
        reported == { <<rec.w.lo, rec.h.lo>> :
                      rec \in { r \in IngestedSet :
                                  /\ ReportsSize(r, r.w.lo, r.h.lo)
                                  /\ r.w.lo # 0 /\ r.h.lo # 0 } }
    IN  \A k \in DOMAIN raw \cup reported :
            LET recs == { r \in IngestedSet : ReportsSize(r, k[1], k[2]) }
                One == [r \in recs |-> 1]
                Bid == [r \in recs |-> IF HadBid(r) THEN 1 ELSE 0]
                Price == [r \in recs |-> IF HadBid(r) THEN FirstBidPrice(r) ELSE 0]
            IN  IF recs = {} THEN k \notin DOMAIN raw
                ELSE /\ k \in DOMAIN raw
                     /\ raw[k].requests = SumOver(recs, One)
                     /\ raw[k].bids = SumOver(recs, Bid)
                     /\ raw[k].sum_bid_price = SumOver(recs, Price)

\* C1 restricted to passes in which every reported dimension is below 2^32:
\* the counts then match.
RawCountsMatchBelow2p32 ==
    (\A r \in IngestedSet : r.w.hi = 0 /\ r.h.hi = 0) => C1_RawCountsMatchRecords

\* C2: ingesting a record whose width or height is zero, absent or
\* non-numeric leaves all six views unchanged, whatever else it carries.
C2_BadSizeChangesNothing ==
    [][(BadDim(StepRecord.w) \/ BadDim(StepRecord.h)) => global' = global]_vars

\* C2 witness: a bad-size record carrying a bid, source, publisher, segment
\* and timestamp was ingested into views that already hold entries.
C2_Witness ==
    /\ DOMAIN global.by_raw_format # {}
    /\ DOMAIN global.time_stats # {}
    /\ \E rec \in IngestedSet :
          /\ rec.w.t = "absent"
          /\ HadBid(rec) /\ rec.ssp.t = "str" /\ rec.publisher_id.t = "str"
          /\ rec.segment_id.t = "str" /\ rec.ts_ms.some
    /\ \E rec \in IngestedSet : rec.h.t = "str" /\ HadBid(rec)
    /\ BagCardinality(ingested) = 3
    /\ global.by_raw_format[<<300, 250>>].requests = 1

\* C3: every entry of every view, time buckets included, has bids <= requests.
C3_BidsAtMostRequests ==
    \A v \in Views : \A k \in DOMAIN global[v] :
        global[v][k].bids <= global[v][k].requests

\* C3 witness: all six views hold an entry, one with as many bids as
\* requests and one with fewer.
C3_Witness ==
    /\ \A v \in Views : DOMAIN global[v] # {}
    /\ \E k \in DOMAIN global.time_stats :
          /\ global.time_stats[k].bids = 2
          /\ global.time_stats[k].requests = 2
    /\ \E k \in DOMAIN global.by_raw_format :
          /\ global.by_raw_format[k].bids = 1
          /\ global.by_raw_format[k].requests = 2

\* C4: sumBidPrice changes only in a step in which the entry's bids grows by
\* exactly 1, and an entry with bids = 0 has sumBidPrice = 0.
C4_PriceInLockstepWithBids ==
    [][\A v \in Views : \A k \in DOMAIN global'[v] :
          /\ After(v, k).sum_bid_price # Before(v, k).sum_bid_price
                => After(v, k).bids = Before(v, k).bids + 1
          /\ After(v, k).bids = 0 => After(v, k).sum_bid_price = 0]_vars

\* C4 witness: an entry took two priced bids, another took requests only.
C4_Witness ==
    /\ \E k \in DOMAIN global.by_canonical_format :
          /\ global.by_canonical_format[k].bids = 2
          /\ global.by_canonical_format[k].sum_bid_price = 3
    /\ \E k \in DOMAIN global.time_stats :
          /\ global.time_stats[k].bids = 2
          /\ global.time_stats[k].sum_bid_price = 3
    /\ \E k \in DOMAIN global.by_raw_format :
          /\ global.by_raw_format[k].bids = 0
          /\ global.by_raw_format[k].requests = 1

\* C5 as stated: in every ingest each view's key set only grows and no
\* existing entry's requests, bids or sumBidPrice decreases.
C5_NothingDecreases ==
    [][\A v \in Views :
          /\ DOMAIN global[v] \subseteq DOMAIN global'[v]
          /\ \A k \in DOMAIN global[v] :
                /\ After(v, k).requests >= Before(v, k).requests
                /\ After(v, k).bids >= Before(v, k).bids
                /\ After(v, k).sum_bid_price >= Before(v, k).sum_bid_price]_vars

\* C5 amended: key sets only grow, requests and bids never decrease, and
\* sumBidPrice never decreases in an ingest of a record whose first-bid
\* price is not negative.
C5_NothingDecreasesButNegativePrice ==
    [][\A v \in Views :
             /\ DOMAIN global[v] \subseteq DOMAIN global'[v]
             /\ \A k \in DOMAIN global[v] :
                   /\ After(v, k).requests >= Before(v, k).requests
                   /\ After(v, k).bids >= Before(v, k).bids
                   /\ FirstBidPrice(StepRecord) >= 0 =>
                         After(v, k).sum_bid_price >= Before(v, k).sum_bid_price]_vars

\* C5 witness: an entry was updated three times, each view holds entries, and
\* the raw view holds several keys.
C5_Witness ==
    /\ \A v \in Views : DOMAIN global[v] # {}
    /\ Cardinality(DOMAIN global.by_raw_format) >= 2
    /\ \E k \in DOMAIN global.by_canonical_format :
          /\ global.by_canonical_format[k].requests = 3
          /\ global.by_canonical_format[k].bids = 2
          /\ global.by_canonical_format[k].sum_bid_price = 3

\* C6: in one ingest every entry that is updated, in whichever view, gets
\* requests + 1 and the same increment of bids (0 or 1) and of sumBidPrice.
Delta(v, k) ==
    <<After(v, k).requests - Before(v, k).requests,
      After(v, k).bids - Before(v, k).bids,
      After(v, k).sum_bid_price - Before(v, k).sum_bid_price>>

C6_OneRecordCountsAlikeEverywhere ==
    [][LET touched == { vk \in UNION { {<<v, k>> : k \in DOMAIN global'[v]} : v \in Views } :
                          \/ vk[2] \notin DOMAIN global[vk[1]]
                          \/ global'[vk[1]][vk[2]] # global[vk[1]][vk[2]] }
           deltas == { Delta(vk[1], vk[2]) : vk \in touched }
       IN  /\ Cardinality(deltas) <= 1
           /\ \A d \in deltas : d[1] = 1 /\ d[2] \in {0, 1}
           /\ \A d \in deltas : d[2] = 1 => d[3] = FirstBidPrice(StepRecord)]_vars

\* C6 witness: records with a bid and without one each went into all six
\* views.
C6_Witness ==
    /\ \A v \in Views : \E k \in DOMAIN global[v] :
          global[v][k].requests >= 2 /\ global[v][k].bids = 1
    /\ \E rec \in IngestedSet : HadBid(rec) /\ FirstBidPrice(rec) < 0 /\ rec.ts_ms.some

\* C7: the canonical view holds exactly the canonical sizes of the raw
\* view's keys, and under each its requests and bids are the sums of those of
\* the raw entries whose key canonicalizes to it.
RECURSIVE SumField(_, _, _)
SumField(map, keys, field) ==
    IF keys = {} THEN 0
    ELSE LET k == CHOOSE x \in keys : TRUE
         IN  map[k][field] + SumField(map, keys \ {k}, field)

C7_CanonicalViewSumsRawView ==
    LET raw == global.by_raw_format
        can == global.by_canonical_format
        RawOf(c) == { k \in DOMAIN raw : FirstWindowPoint(k[1], k[2]) = c }
    IN  /\ DOMAIN can = { FirstWindowPoint(k[1], k[2]) : k \in DOMAIN raw }
        /\ \A c \in DOMAIN can :
              /\ can[c].requests = SumField(raw, RawOf(c), "requests")
              /\ can[c].bids = SumField(raw, RawOf(c), "bids")

\* C7 witness: three raw sizes, two in the 300x250 window and one in both the
\* 320x100 and 300x100 windows, make two canonical entries.
C7_Witness ==
    /\ DOMAIN global.by_raw_format = { <<298, 250>>, <<300, 250>>, <<310, 100>> }
    /\ DOMAIN global.by_canonical_format = { <<300, 250>>, <<320, 100>> }
    /\ global.by_canonical_format[<<300, 250>>].requests = 2
    /\ global.by_canonical_format[<<300, 250>>].bids = 1

(***************************************************************************)
(* Claims about the optional dimensions.                                   *)
(***************************************************************************)
\* The views other than v after ingesting rec into the current GlobalStats.
SameElsewhere(v, rec) ==
    \A u \in Views \ {v} : global'[u] = process_record_global(rec, global)[u]

\* C11: a valid-size record without publisher id (segment id, timestamp)
\* leaves the by-publisher (by-segment, time) view unchanged and updates every
\* other view exactly as the same record with that dimension present does.
C11_MissingDimensionSkipsOnlyItsView ==
    [][LET rec == StepRecord IN
       /\ rec.publisher_id.t = "absent" =>
             /\ global'.by_publisher = global.by_publisher
             /\ SameElsewhere("by_publisher", [rec EXCEPT !.publisher_id = JStr("p1")])
       /\ rec.segment_id.t = "absent" =>
             /\ global'.by_segment = global.by_segment
             /\ SameElsewhere("by_segment", [rec EXCEPT !.segment_id = JStr("g1")])
       /\ ~rec.ts_ms.some =>
             /\ global'.time_stats = global.time_stats
             /\ SameElsewhere("time_stats", [rec EXCEPT !.ts_ms = Ts(5)])]_vars

\* C11 witness: records lacking each of the three dimensions, but carrying
\* the other two, were ingested.
C11_Witness ==
    /\ \E rec \in IngestedSet :
          rec.publisher_id.t = "absent" /\ rec.segment_id.t = "str" /\ rec.ts_ms.some
    /\ \E rec \in IngestedSet :
          rec.publisher_id.t = "str" /\ rec.segment_id.t = "absent" /\ rec.ts_ms.some
    /\ \E rec \in IngestedSet :
          rec.publisher_id.t = "str" /\ rec.segment_id.t = "str" /\ ~rec.ts_ms.some
    /\ global.by_raw_format[<<300, 250>>].requests = 3
    /\ \A v \in {"by_publisher", "by_segment", "time_stats"} :
          \E k \in DOMAIN global[v] : global[v][k].requests = 2

\* C12: the by-source view never holds an entry under the empty string, and
\* a record whose source id is absent or empty leaves that view unchanged.
C12_NoEmptySource ==
    [][/\ "" \notin DOMAIN global'.by_ssp
       /\ (StepRecord.ssp.t = "absent" \/ StepRecord.ssp = JStr(""))
             => global'.by_ssp = global.by_ssp]_vars

\* C12 witness: records with an absent, an empty and a named source were
\* ingested; only the named one has an entry.
C12_Witness ==
    /\ \E rec \in IngestedSet : rec.ssp.t = "absent"
    /\ \E rec \in IngestedSet : rec.ssp = JStr("")
    /\ \E rec \in IngestedSet : rec.ssp = JStr("s1")
    /\ DOMAIN global.by_ssp = {"s1"}
    /\ global.by_ssp["s1"].requests = 1
    /\ global.by_raw_format[<<300, 250>>].requests = 3

(***************************************************************************)
(* Claims about the time buckets.                                          *)
(***************************************************************************)
\* The timestamps of the ingested valid-size records that fall into bucket b.
BucketTimestamps(b) ==
    { rec.ts_ms.v : rec \in { r \in IngestedSet :
          ~skip_record(dim_u32(r.w), dim_u32(r.h)) /\ r.ts_ms.some /\ r.ts_ms.v \div 60000 = b } }

MinOf(S) == CHOOSE x \in S : \A y \in S : x <= y
MaxOf(S) == CHOOSE x \in S : \A y \in S : x >= y

\* C13: every time bucket's min_ts is the minimum of the timestamps of the
\* ingested records that fell into it, a timestamp of 0 included.
C13_MinTimestampIsMinimum ==
    \A b \in DOMAIN global.time_stats :
       /\ BucketTimestamps(b) # {}
       /\ global.time_stats[b].min_ts = MinOf(BucketTimestamps(b))

\* C14: every time bucket's max_ts is the maximum of the timestamps of the
\* ingested records that fell into it.
C14_MaxTimestampIsMaximum ==
    \A b \in DOMAIN global.time_stats :
       /\ BucketTimestamps(b) # {}
       /\ global.time_stats[b].max_ts = MaxOf(BucketTimestamps(b))

\* C14 witness: the first minute holds two different timestamps, the
\* second minute one, and each bucket reports its largest.
C14_Witness ==
    /\ DOMAIN global.time_stats = {0, 1}
    /\ BucketTimestamps(0) = {5, 59999}
    /\ BucketTimestamps(1) = {60000}
    /\ global.time_stats[0].max_ts = 59999
    /\ global.time_stats[1].max_ts = 60000

(***************************************************************************)
(* Claims about the bid test.                                              *)
(***************************************************************************)
\* C15: a record counts as a bid iff its response holds at least one seat-bid
\* entry that carries a bid; no seatbid, a non-array seatbid, an empty array
\* or only entries without a bid leave bids as it was.
C15_BidIffSeatCarriesBid ==
    [][LET rec == StepRecord
           k == <<dim_u32(rec.w), dim_u32(rec.h)>>
       IN After("by_raw_format", k).bids - Before("by_raw_format", k).bids
             = IF HadBid(rec) THEN 1 ELSE 0]_vars

(***************************************************************************)
(* Claims about bid_rate and avg_bid_price.                                *)
(***************************************************************************)
FormatViews == Views \ {"time_stats"}

\* C16: bid_rate of every entry of every FormatStats view lies in [0, 1], and
\* bid_rate is 0 for an entry whose requests is 0 (the default entry).
C16_BidRateInUnitInterval ==
    /\ bid_rate(FormatStats_default) = F64_zero
    /\ \A v \in FormatViews : \A k \in DOMAIN global[v] :
          LET rate == bid_rate(global[v][k]) IN
          /\ f64_le(F64_zero, rate)
          /\ f64_le(rate, F64_1)
          /\ global[v][k].requests = 0 => rate = F64_zero

\* C16 witness: one entry with a rate strictly between 0 and 1 (one bid in
\* three requests) and entries with rate 1.
C16_Witness ==
    /\ <<300, 250>> \in DOMAIN global.by_raw_format
    /\ "s1" \in DOMAIN global.by_ssp
    /\ global.by_raw_format[<<300, 250>>].requests = 3
    /\ global.by_raw_format[<<300, 250>>].bids = 1
    /\ f64_lt(F64_zero, bid_rate(global.by_raw_format[<<300, 250>>]))
    /\ f64_lt(bid_rate(global.by_raw_format[<<300, 250>>]), F64_1)
    /\ global.by_ssp["s1"].bids = 1
    /\ bid_rate(global.by_ssp["s1"]) = F64_1
    /\ \E k \in DOMAIN global.by_publisher :
          global.by_publisher[k].requests = 1 /\ bid_rate(global.by_publisher[k]) = F64_1

\* The prices of the bidding updates applied to the priced entry.
BidPrices == { priced.updates[i].bid_price :
               i \in { j \in 1..Len(priced.updates) : priced.updates[j].has_bid } }

\* C17 as stated: avg_bid_price is 0 when bids is 0, sum_bid_price / bids
\* otherwise, and p for an entry built from records all bidding the price p.
C17_AverageOfEqualPricesIsThePrice ==
    /\ priced.stat.bids = 0 => avg_bid_price(priced.stat) = F64_zero
    /\ priced.stat.bids > 0 =>
          avg_bid_price(priced.stat)
             = f64_div(priced.stat.sum_bid_price, f64_from_u64(priced.stat.bids))
    /\ \A p \in Prices : BidPrices = {p} => avg_bid_price(priced.stat) = p

\* C17 amended: avg_bid_price is 0 when bids is 0 and the f64 quotient
\* sum_bid_price / bids otherwise; for an entry built from records all bidding
\* the price p it is p when at most two of them bid or when p is 0.5 or 1.0
\* (every partial sum is then exact), and with three bids of 0.1 it is the
\* next f64 above 0.1.
C17_AverageOfEqualPricesWhenExact ==
    /\ priced.stat.bids = 0 => avg_bid_price(priced.stat) = F64_zero
    /\ priced.stat.bids > 0 =>
          avg_bid_price(priced.stat)
             = f64_div(priced.stat.sum_bid_price, f64_from_u64(priced.stat.bids))
    /\ \A p \in Prices :
          BidPrices = {p} /\ (priced.stat.bids <= 2 \/ p \in {F64_0_5, F64_1})
             => avg_bid_price(priced.stat) = p
    /\ BidPrices = {F64_0_1} /\ priced.stat.bids = 3 =>
          avg_bid_price(priced.stat) = [F64_0_1 EXCEPT !.m = BitsInc(F64_0_1.m)]

\* C17 witness: three records bid 0.1 and one did not bid.
C17_Witness ==
    /\ BidPrices = {F64_0_1}
    /\ priced.stat.bids = 3
    /\ priced.stat.requests = 4
    /\ f64_lt(F64_0_1, avg_bid_price(priced.stat))

(***************************************************************************)
(* Claims about find_problem_formats.                                      *)
(***************************************************************************)
RawKeys == DOMAIN global.by_raw_format

\* The three rules on the raw entry under key k, stated on its counters.
ZeroBids(k) ==
    /\ global.by_raw_format[k].bids = 0
    /\ global.by_raw_format[k].requests >= problems.threshold

NonStandard(k) ==
    /\ ~\E i \in 1..Len(standards) : InWindow(i, k[1], k[2])
    /\ global.by_raw_format[k].requests >= problems.threshold

LowBidRate(k) ==
    /\ global.by_raw_format[k].bids > 0
    /\ 100 * global.by_raw_format[k].bids < global.by_raw_format[k].requests
    /\ global.by_raw_format[k].requests >= problems.threshold

\* The tag of the first rule that holds, "none" when none does.
FirstRule(k) ==
    IF ZeroBids(k) THEN "zero_bids"
    ELSE IF NonStandard(k) THEN "non_standard"
    ELSE IF LowBidRate(k) THEN "low_bid_rate"
    ELSE "none"

\* The positions of the returned list that speak of the raw size k.
Reported(k) ==
    { i \in 1..Len(problems.list) : <<problems.list[i].w, problems.list[i].h>> = k }

\* C18: the returned list holds at most one ProblemFormat per raw entry, and
\* each one is tagged with the first rule that holds for its entry in the
\* order zero_bids, non_standard, low_bid_rate.
C18_TaggedByFirstRule ==
    problems.ran =>
       /\ \A i \in 1..Len(problems.list) :
             /\ <<problems.list[i].w, problems.list[i].h>> \in RawKeys
             /\ problems.list[i].problem_type
                   = FirstRule(<<problems.list[i].w, problems.list[i].h>>)
       /\ \A k \in RawKeys : Cardinality(Reported(k)) <= 1

\* C18 witness: a non-standard size without bids came out as zero_bids and a
\* non-standard size with one bid in 101 requests as non_standard.
C18_Witness ==
    /\ problems.ran
    /\ \E i, j \in 1..Len(problems.list) :
          /\ problems.list[i].w = 123 /\ problems.list[i].bids = 0
          /\ problems.list[i].problem_type = "zero_bids"
          /\ problems.list[j].w = 999 /\ problems.list[j].bids = 1
          /\ problems.list[j].requests = 101
          /\ problems.list[j].problem_type = "non_standard"

\* C19: a raw entry that matches no rule is not in the returned list: none
\* with requests below the threshold, no standard size with bids and a rate
\* of at least 0.01; every entry that matches a rule is in it exactly once.
C19_OnlyMatchingEntries ==
    problems.ran =>
       \A k \in RawKeys :
          /\ FirstRule(k) = "none" => Reported(k) = {}
          /\ global.by_raw_format[k].requests < problems.threshold => Reported(k) = {}
          /\ (/\ \E i \in 1..Len(standards) : InWindow(i, k[1], k[2])
              /\ global.by_raw_format[k].bids > 0
              /\ 100 * global.by_raw_format[k].bids >= global.by_raw_format[k].requests)
                => Reported(k) = {}
          /\ FirstRule(k) # "none" => Cardinality(Reported(k)) = 1

\* C19 witness: the standard size with one bid in 100 requests (a rate of
\* exactly 0.01) and a size below the threshold are left out, and the size
\* without bids is reported.
C19_Witness ==
    /\ problems.ran
    /\ RawKeys = {<<300, 250>>, <<123, 456>>, <<999, 888>>}
    /\ global.by_raw_format[<<300, 250>>].requests = 100
    /\ global.by_raw_format[<<300, 250>>].bids = 1
    /\ global.by_raw_format[<<123, 456>>].requests < problems.threshold
    /\ Len(problems.list) = 1
    /\ problems.list[1].w = 999
    /\ problems.list[1].problem_type = "zero_bids"

\* C20: the returned list is in descending order of requests, and problems
\* with equal requests are in ascending order of (w, h).
C20_SortedByRequestsThenSize ==
    problems.ran =>
       \A i, j \in 1..Len(problems.list) :
          i < j =>
             /\ problems.list[i].requests >= problems.list[j].requests
             /\ problems.list[i].requests = problems.list[j].requests =>
                   \/ problems.list[i].w < problems.list[j].w
                   \/ /\ problems.list[i].w = problems.list[j].w
                      /\ problems.list[i].h < problems.list[j].h

\* C20 witness: three problems, the largest size with the most requests
\* first, then two with equal requests in ascending order of size.
C20_Witness ==
    /\ problems.ran
    /\ Len(problems.list) = 3
    /\ problems.list[1].w = 999
    /\ problems.list[1].requests > problems.list[2].requests
    /\ problems.list[2].requests = problems.list[3].requests
    /\ problems.list[2].w = 123
    /\ problems.list[3].w = 300

\* C21: with min_volume_threshold = 0 every raw entry without bids is
\* reported as zero_bids and every non-standard entry with bids as
\* non_standard, whatever its number of requests.
C21_ZeroThresholdIsVacuous ==
    (problems.ran /\ problems.threshold = 0) =>
       \A k \in RawKeys :
          /\ global.by_raw_format[k].bids = 0 =>
                \E i \in Reported(k) : problems.list[i].problem_type = "zero_bids"
          /\ (/\ global.by_raw_format[k].bids > 0
              /\ ~\E i \in 1..Len(standards) : InWindow(i, k[1], k[2])) =>
                \E i \in Reported(k) : problems.list[i].problem_type = "non_standard"

\* C21 witness: with threshold 0, a size seen once without a bid came out as
\* zero_bids and a non-standard size seen once with a bid as non_standard.
C21_Witness ==
    /\ problems.ran
    /\ problems.threshold = 0
    /\ \E i, j \in 1..Len(problems.list) :
          /\ problems.list[i].requests = 1 /\ problems.list[i].bids = 0
          /\ problems.list[i].problem_type = "zero_bids"
          /\ problems.list[j].requests = 1 /\ problems.list[j].bids = 1
          /\ problems.list[j].w = 123
          /\ problems.list[j].problem_type = "non_standard"

(***************************************************************************)
(* Claims about sharded ingestion.  The merge is the point-wise sum of     *)
(* requests, bids and sum_bid_price per view and key.                      *)
(***************************************************************************)
\* The three counters of the entry of map under k, all zero without one.
CountersOf(map, k) ==
    IF k \in DOMAIN map
    THEN [requests |-> map[k].requests, bids |-> map[k].bids,
          sum_bid_price |-> map[k].sum_bid_price]
    ELSE ZeroEntry

merge_view(ma, mb) ==
    [k \in DOMAIN ma \cup DOMAIN mb |->
        [requests |-> CountersOf(ma, k).requests + CountersOf(mb, k).requests,
         bids |-> CountersOf(ma, k).bids + CountersOf(mb, k).bids,
         sum_bid_price |-> CountersOf(ma, k).sum_bid_price
                              + CountersOf(mb, k).sum_bid_price]]

\* A bag of records ingested one after the other into g.
RECURSIVE ingest_all(_, _)
ingest_all(bag, g) ==
    IF bag = EmptyBag THEN g
    ELSE LET r == CHOOSE x \in BagToSet(bag) : TRUE
         IN ingest_all(bag (-) SetToBag({r}), process_record_global(r, g))

\* Ingesting shard a and the rest of the records apart and merging gives the
\* counters of global in every view under every key.
MergedEqualsGlobal(a) ==
    LET ga == ingest_all(a, GlobalStats_new)
        gb == ingest_all(ingested (-) a, GlobalStats_new)
    IN \A v \in Views :
          LET m == merge_view(ga[v], gb[v]) IN
          /\ DOMAIN m = DOMAIN global[v]
          /\ \A k \in DOMAIN m : m[k] = CountersOf(global[v], k)

\* The entry built from the updates at the positions in S, in their order.
RECURSIVE shard_entry(_, _, _)
shard_entry(S, i, entry) ==
    IF i > Len(priced.updates) \/ entry.requests >= i THEN entry
    ELSE shard_entry(S, i + 1,
                     IF i \in S
                     THEN update_stats_f64(entry, priced.updates[i].has_bid,
                                           priced.updates[i].bid_price)
                     ELSE entry)

ShardOf(S) ==
    shard_entry(S, 1, [requests |-> 0, bids |-> 0, sum_bid_price |-> F64_zero])

Positions == 1..Len(priced.updates)

\* C22 as stated: any split of the records into two shards, ingested apart
\* and merged point-wise, gives the counters of the sequential pass, the f64
\* price sum included.
C22_ShardedEqualsSequential ==
    /\ \A a \in SubBag(ingested) : MergedEqualsGlobal(a)
    /\ \A S \in SUBSET Positions :
          /\ ShardOf(S).requests + ShardOf(Positions \ S).requests
                = priced.stat.requests
          /\ ShardOf(S).bids + ShardOf(Positions \ S).bids = priced.stat.bids
          /\ f64_add(ShardOf(S).sum_bid_price, ShardOf(Positions \ S).sum_bid_price)
                = priced.stat.sum_bid_price

\* C22 amended: requests and bids of the merged shards are those of the
\* sequential pass in every view under every key; so is sum_bid_price when
\* the prices add up exactly in f64 (integer prices, prices of 0.5 and 1.0,
\* or at most two bids), and not in general.
C22_ShardedEqualsSequentialWhenExact ==
    /\ \A a \in SubBag(ingested) : MergedEqualsGlobal(a)
    /\ \A S \in SUBSET Positions :
          /\ ShardOf(S).requests + ShardOf(Positions \ S).requests
                = priced.stat.requests
          /\ ShardOf(S).bids + ShardOf(Positions \ S).bids = priced.stat.bids
          /\ (BidPrices \subseteq {F64_0_5, F64_1} \/ priced.stat.bids <= 2) =>
                f64_add(ShardOf(S).sum_bid_price, ShardOf(Positions \ S).sum_bid_price)
                   = priced.stat.sum_bid_price

\* C22 witness: three records were ingested and some split puts records of
\* the same canonical size, source and minute into both shards.
C22_Witness ==
    /\ BagCardinality(ingested) = 3
    /\ \E a \in SubBag(ingested) :
          LET ga == ingest_all(a, GlobalStats_new)
              gb == ingest_all(ingested (-) a, GlobalStats_new)
          IN /\ <<300, 250>> \in DOMAIN ga.by_canonical_format
             /\ <<300, 250>> \in DOMAIN gb.by_canonical_format
             /\ "s1" \in DOMAIN ga.by_ssp /\ "s1" \in DOMAIN gb.by_ssp
             /\ 0 \in DOMAIN ga.time_stats /\ 0 \in DOMAIN gb.time_stats
             /\ gb.by_ssp["s1"].bids = 2
             /\ global.by_ssp["s1"].sum_bid_price = 5

(***************************************************************************)
(* Claims about ingesting a record again.                                  *)
(***************************************************************************)
\* The step ingests a record the pass has ingested before.
Reingests == CopiesIn(StepRecord, ingested) >= 1

\* C23 as stated: ingesting a record a second time leaves every view as it
\* was after the first ingestion.
C23_SecondIngestChangesNothing ==
    [][Reingests => global' = global]_vars

\* C23 amended: ingesting a valid-size record again creates no entry, and
\* counts one more request under its raw size and at most one more under any
\* key; only a record of invalid size leaves every view as it was.
C23_SecondIngestCountsAgain ==
    [][Reingests =>
         LET rec == StepRecord
             w == dim_u32(rec.w)
             h == dim_u32(rec.h)
         IN /\ \A v \in Views : DOMAIN global'[v] = DOMAIN global[v]
            /\ \A v \in Views : \A k \in DOMAIN global[v] :
                  global'[v][k].requests - global[v][k].requests \in {0, 1}
            /\ (w = 0 \/ h = 0) => global' = global
            /\ (w # 0 /\ h # 0) =>
                  global'.by_raw_format[<<w, h>>].requests
                     = global.by_raw_format[<<w, h>>].requests + 1]_vars

\* C23 witness: a valid-size record with every dimension was ingested twice
\* and is counted twice.
C23_Witness ==
    \E rec \in IngestedSet :
       /\ CopiesIn(rec, ingested) = 2
       /\ rec.w = JNum(0, 300) /\ rec.h = JNum(0, 250)
       /\ rec.ssp = JStr("s1")
       /\ BagCardinality(ingested) = 2
       /\ global.by_raw_format[<<300, 250>>].requests = 2
       /\ global.by_ssp["s1"].requests = 2

(***************************************************************************)
(* Claims about compound keys.                                             *)
(***************************************************************************)
\* The source id a record is grouped under: "" when absent.
SourceOf(rec) == IF rec.ssp.t = "str" THEN rec.ssp.s ELSE ""

\* C24: a valid-size record with a publisher id counts in the by-publisher
\* view under (source id, publisher id), under ("", publisher id) when its
\* source id is absent or empty, and then creates no by-source entry; the
\* same for a segment id and the by-segment view.
C24_CompoundKeyWithEmptySource ==
    [][LET rec == StepRecord
           pk == [ssp |-> SourceOf(rec), publisher_id |-> rec.publisher_id.s]
           sk == [ssp |-> SourceOf(rec), segment |-> rec.segment_id.s]
       IN /\ rec.publisher_id.t = "str" =>
                /\ pk \in DOMAIN global'.by_publisher
                /\ After("by_publisher", pk).requests
                      = Before("by_publisher", pk).requests + 1
          /\ rec.segment_id.t = "str" =>
                /\ sk \in DOMAIN global'.by_segment
                /\ After("by_segment", sk).requests
                      = Before("by_segment", sk).requests + 1
          /\ SourceOf(rec) = "" => global'.by_ssp = global.by_ssp]_vars

\* C24 witness: records with a publisher id and a segment id but an absent
\* and an empty source were ingested; they are counted under ("", id) and
\* the by-source view has no entry.
C24_Witness ==
    /\ \E rec \in IngestedSet : rec.ssp.t = "absent" /\ rec.publisher_id.t = "str"
    /\ \E rec \in IngestedSet : rec.ssp = JStr("") /\ rec.segment_id.t = "str"
    /\ [ssp |-> "", publisher_id |-> "p1"] \in DOMAIN global.by_publisher
    /\ [ssp |-> "", segment |-> "g1"] \in DOMAIN global.by_segment
    /\ global.by_publisher[[ssp |-> "", publisher_id |-> "p1"]].requests = 2
    /\ global.by_ssp = EmptyMap

(***************************************************************************)
(* Claims about the bucket of a timestamp.                                 *)
(***************************************************************************)
\* ts lies in minute b: b = floor(ts / 60000).
InMinute(ts, b) == 60000 * b <= ts /\ ts < 60000 * (b + 1)

\* The ingested valid-size records whose timestamp lies in minute b.
RecordsInMinute(b) ==
    { r \in IngestedSet :
        /\ ~skip_record(dim_u32(r.w), dim_u32(r.h))
        /\ r.ts_ms.some /\ InMinute(r.ts_ms.v, b) }

\* Every bucket counts the valid-size records of its minute, and every such
\* record has its bucket.
BucketsCountTheirMinute ==
    /\ \A b \in DOMAIN global.time_stats :
          global.time_stats[b].requests
             = SumOver(RecordsInMinute(b), [r \in RecordsInMinute(b) |-> 1])
    /\ \A r \in IngestedSet :
          (~skip_record(dim_u32(r.w), dim_u32(r.h)) /\ r.ts_ms.some) =>
             \E b \in DOMAIN global.time_stats : InMinute(r.ts_ms.v, b)

\* C25: a valid-size record with timestamp ts adds one request to the bucket
\* floor(ts / 60000) and changes no other bucket; every bucket's requests is
\* the number of valid-size records whose timestamp lies in its minute.
C25_OneBucketPerTimestamp ==
    [][/\ StepRecord.ts_ms.some =>
             \A b \in DOMAIN global'.time_stats :
                IF InMinute(StepRecord.ts_ms.v, b)
                THEN After("time_stats", b).requests
                        = Before("time_stats", b).requests + 1
                ELSE /\ b \in DOMAIN global.time_stats
                     /\ global'.time_stats[b] = global.time_stats[b]
       /\ BucketsCountTheirMinute']_vars

\* C25 witness: timestamps 59999 and 60000 went to buckets 0 and 1, and
\* bucket 0 holds a second record.
C25_Witness ==
    /\ DOMAIN global.time_stats = {0, 1}
    /\ BucketTimestamps(0) = {7, 59999}
    /\ BucketTimestamps(1) = {60000}
    /\ global.time_stats[0].requests = 2
    /\ global.time_stats[1].requests = 1

(***************************************************************************)
(* Claims about reading a file.                                            *)
(***************************************************************************)
\* A line that is white space only.
Blank(line) == line.text = "empty"

\* A line the reader cannot turn into a LogRecord.
Unparseable(line) == line.text \in {"not_json", "no_request", "not_utf8"}

\* The number of the first unparseable line, counting every line from 1;
\* one past the last line when every line is blank or a record.
FirstBad(lines) ==
    IF \E i \in 1..Len(lines) : Unparseable(lines[i])
    THEN CHOOSE i \in 1..Len(lines) :
            /\ Unparseable(lines[i])
            /\ \A j \in 1..(i - 1) : ~Unparseable(lines[j])
    ELSE Len(lines) + 1

\* The records of the lines before line number n, blank lines left out.
RecordsBefore(lines, n) ==
    LET kept == SelectSeq(SubSeq(lines, 1, n - 1), LAMBDA l : ~Blank(l))
    IN [i \in 1..Len(kept) |-> kept[i].record]

\* g after the records of seq, first to last.
RECURSIVE after_records(_, _)
after_records(seq, g) ==
    IF seq = <<>> THEN g
    ELSE after_records(Tail(seq), process_record_global(Head(seq), g))

\* C26: process_lines_global returns an error naming the first unparseable
\* line, ingests nothing after it, and leaves in GlobalStats the
\* contributions of the lines before it on top of what was there; blank
\* lines raise no error and update nothing.
C26_StopsAtFirstBadLine ==
    [][reader'.ran /\ ~reader.ran =>
         LET lines == reader'.lines
             bad == FirstBad(lines)
             before == RecordsBefore(lines, bad)
         IN /\ global' = after_records(before, global)
            /\ ingested' = ingested (+) BagOfSeq(before)
            /\ reader'.result.ok = (bad > Len(lines))
            /\ ~reader'.result.ok => reader'.result.line = bad
            /\ (\A i \in 1..Len(lines) : Blank(lines[i])) =>
                  reader'.result.ok /\ global' = global]_vars

\* C26 witness: a file of a record, a line that is not JSON and a record
\* was read on top of an earlier record: line 2 is named and only the
\* first line was ingested.
C26_Witness ==
    /\ reader.ran /\ Len(reader.lines) = 3
    /\ reader.lines[1].text = "record"
    /\ reader.lines[2].text = "not_json"
    /\ reader.lines[3].text = "record"
    /\ reader.result = [ok |-> FALSE, line |-> 2]
    /\ BagCardinality(ingested) = 2
    /\ <<300, 250>> \in DOMAIN global.by_raw_format
    /\ global.by_raw_format[<<300, 250>>].requests = 2

(***************************************************************************)
(* Claims about the entries present.                                       *)
(***************************************************************************)
\* C27: every entry present in any of the six views has requests >= 1.
C27_NoEntryWithoutRequest ==
    \A v \in Views : \A k \in DOMAIN global[v] : global[v][k].requests >= 1

\* C27 witness: a record of a zero dimension naming its source, publisher,
\* segment and time and a valid record without a bid naming them were
\* ingested, and every view holds an entry.
C27_Witness ==
    /\ \E r \in IngestedSet :
          /\ skip_record(dim_u32(r.w), dim_u32(r.h))
          /\ SourceOf(r) # "" /\ r.ts_ms.some
    /\ \E r \in IngestedSet :
          /\ ~skip_record(dim_u32(r.w), dim_u32(r.h))
          /\ SourceOf(r) # "" /\ r.ts_ms.some /\ ~HadBid(r)
    /\ \A v \in Views : DOMAIN global[v] # {}

(***************************************************************************)
(* Claims about the span of a time bucket.                                 *)
(***************************************************************************)
\* C28: in every time bucket b, min_ts <= max_ts, both are timestamps of
\* records that fell into b, and both lie in [60000*b, 60000*b + 59999].
C28_SpanInsideTheMinute ==
    \A b \in DOMAIN global.time_stats :
       LET entry == global.time_stats[b]
       IN /\ entry.min_ts <= entry.max_ts
          /\ entry.min_ts \in BucketTimestamps(b)
          /\ entry.max_ts \in BucketTimestamps(b)
          /\ 60000 * b <= entry.min_ts
          /\ entry.max_ts <= 60000 * b + 59999

\* C28 witness: bucket 0 holds the timestamps 0 and 5 with a max_ts of 5,
\* bucket 1 holds 60005 alone.
C28_Witness ==
    /\ DOMAIN global.time_stats = {0, 1}
    /\ BucketTimestamps(0) = {0, 5}
    /\ BucketTimestamps(1) = {60005}
    /\ global.time_stats[0].max_ts = 5
    /\ global.time_stats[1].min_ts = 60005

(***************************************************************************)
(* Claims about the width of a dimension.                                  *)
(***************************************************************************)
\* A JSON value that is a positive integer, of any size.
PositiveInteger(j) == j.t = "num" /\ ~(j.hi = 0 /\ j.lo = 0)

\* C29: ingesting a record whose width and height are positive integers
\* adds one request under the by-raw-size key that is exactly the reported
\* (width, height): a value of 2^32 or more is not counted under its
\* remainder modulo 2^32, and a positive value is not taken for zero.
C29_RawKeyIsReportedSize ==
    [][(PositiveInteger(StepRecord.w) /\ PositiveInteger(StepRecord.h)) =>
          \E k \in DOMAIN global'.by_raw_format :
             /\ After("by_raw_format", k).requests
                   = Before("by_raw_format", k).requests + 1
             /\ ReportsSize(StepRecord, k[1], k[2])]_vars

(***************************************************************************)
(* Claims about the log destination.                                       *)
(***************************************************************************)
\* The lines of an uploaded body, in order.
LinesOf(body) ==
    LET kept == SelectSeq(body, LAMBDA t : t[1] = "line")
    IN [i \in 1..Len(kept) |-> kept[i][2]]

\* The lines of the put_object calls i..Len(puts), call after call.
RECURSIVE UploadedFrom(_, _)
UploadedFrom(puts, i) ==
    IF i > Len(puts) THEN <<>>
    ELSE LinesOf(puts[i].body) \o UploadedFrom(puts, i + 1)

\* C30: when every upload succeeds and the final flush has returned, the
\* put_object calls carry every written line exactly once, in written
\* order; the buffer holds fewer than 50 lines whenever write_log returns
\* Ok and is empty after a successful flush; a failed upload leaves in the
\* buffer every line it held, the line just written included.
C30_EveryLineUploadedOnce ==
    [][/\ (dest'.last = "flush_ok" /\ \A i \in 1..Len(dest'.puts) : dest'.puts[i].ok)
             => UploadedFrom(dest'.puts, 1) = [n \in 1..dest'.written |-> n]
       /\ dest'.last = "write_ok" => Len(dest'.buffer) < FlushAt
       /\ dest'.last = "flush_ok" => dest'.buffer = <<>>
       /\ dest'.last = "write_err"
             => dest'.buffer = Append(dest.buffer, dest'.written)
       /\ dest'.last = "flush_err"
             => dest'.buffer = dest.buffer /\ dest.buffer # <<>>]_vars

\* C30 witness: 102 lines were written, no upload failed and the final
\* flush returned: three put_object calls, of 50, 50 and 2 lines.
C30_Witness ==
    /\ dest.last = "flush_ok"
    /\ dest.written = 102
    /\ Len(dest.puts) = 3
    /\ \A i \in 1..3 : dest.puts[i].ok
    /\ Len(LinesOf(dest.puts[1].body)) = 50
    /\ Len(LinesOf(dest.puts[3].body)) = 2

====
